---------------------------- MODULE Spec2Model ----------------------------
(***************************************************************************)
(* A model of the trading journal: the trade statistics                    *)
(* (historicalUtils / tradingService), the position size calculator, the  *)
(* journal component (SimpleTradingJournal) with its risk alerts, and the  *)
(* monthly target tracker (monthlyTargetsService / MonthlyTargets).        *)
(*                                                                         *)
(* Conventions.                                                            *)
(*  - A calendar date 'YYYY-MM-DD' is a day number 1, 2, ...; the order of *)
(*    the strings (and of new Date(string).getTime()) is the order of the  *)
(*    day numbers.                                                         *)
(*  - Money is an integer (the smallest unit entered).  A quotient that    *)
(*    the code keeps as a double (winRate) is kept exact, as a record      *)
(*    [num, den] with den > 0.                                             *)
(*  - An async function is cut at its awaits: one action per Firestore     *)
(*    operation, which performs the operation and runs the continuation    *)
(*    up to the next await.                                                *)
(***************************************************************************)
EXTENDS Integers, Sequences, FiniteSets, TLC

\* ------------------------------------------------------------------ bounds
\* longest trade list given to the pure statistics functions
MaxLen == 3
\* last day number of the modelled calendar
MaxDay == 2
\* trades created in the journal during one session
MaxTrades == 2
\* submissions and deletions made in the journal during one session
MaxOps == 3
\* handleSubmit / handleDelete calls in flight at the same time
MaxCalls == 1
\* days of a month of the modelled calendar
DaysPerMonth == 2
\* tab openings, trade list changes, year selections and form submissions of one run
MaxTargetOps == 3
\* documents of the collection 'monthlyTargets'
MaxTargets == 2
\* completion dates stamped during one run
MaxStamps == 2
\* loadTargetsData / updateProgress / handleSubmit calls of the targets component in flight
MaxTargetCalls == 2
\* the trades the journal holds while the trades section is shown
MaxSectionTrades == 7
MaxRepoCalls == 2
MaxTjSaves == 2

VARIABLES
  \* --- statistics (pure functions applied to an input list)
  statTrades,     \* the Trade[] given to the functions
  stats,          \* result of calculateTradeStats, or NoResult
  summary,        \* result of the computation of getPortfolioSummary, or NoResult
  \* --- PositionSizeCalculator (component state)
  calcForm,       \* formData: the strings of the five inputs
  results,        \* results: CalculationResults, or NoResult for null
  \* --- SimpleTradingJournal (component state, the trades collection, the clock)
  today,          \* new Date().toISOString().split('T')[0], as a day number
  tradesDb,       \* the documents of the Firestore collection 'trades'
  usedIds,        \* the document ids addDoc has handed out
  opsStarted,     \* the number of handleSubmit and handleDelete calls so far
  currentUser,    \* currentUser: TRUE when a user is signed in
  trades,         \* trades (useState)
  dailyTarget,    \* dailyTarget (useState): currentDayPnL, currentDayTrades, streak
  portfolioSummary,   \* portfolioSummary (useState), NoResult for null
  lossAlertShownDate, \* lossAlertShownDate (useState), 0 for null
  accountAlertShown,  \* accountAlertShown (useState)
  editingTrade,   \* editingTrade (useState): the id of the trade, 0 for null
  calls,          \* the handler calls in flight, in the order they started
  \* --- history of the journal, read by the properties only
  lossAlertLog,   \* the days on which the daily loss alert was raised
  lossRecovered,  \* the day on which, after its alert, the day's P&L was seen above the limit
  accountAlerts,  \* the number of account drawdown alerts raised
  accountRecovered,   \* TRUE once, after the alert, a summary above the limit was loaded
  statsDay,       \* the day on which calculateDailyStats last ran, 0 before
  \* --- MonthlyTargets (the monthlyTargets collection, the clock, component state)
  eastOfUTC,      \* TRUE when the client's time zone is east of UTC
  clockTime,      \* the number of completion dates taken from new Date() so far
  targetsDb,      \* the documents of 'monthlyTargets', in document id order
  targetTrades,   \* the trades prop of the component
  currentTarget,  \* currentTarget (useState), NoResult for null
  allTargets,     \* allTargets (useState)
  yearSummary,    \* yearSummary (useState), NoResult for null
  showEditForm,   \* showEditForm (useState)
  showCreateForm, \* showCreateForm (useState)
  loading,        \* loading (useState)
  selectedYear,   \* selectedYear (useState)
  targetForm,     \* formData (useState): the three texts of the target form
  targetCalls,    \* the calls of the component in flight, in the order they started
  targetOps,      \* the number of tab openings, list changes, selections and submissions so far
  \* --- history of the targets, read by the properties only
  interfered,     \* TRUE once a form write landed or two recomputations overlapped
  \* --- historical analytics (pure functions applied to an input list)
  westOfUTC,      \* TRUE when the client's time zone is west of UTC
  histTrades,     \* the Trade[] given to the functions
  histResult,     \* the value one function returned for histTrades, or NoResult
  \* --- EnhancedTradesSection (the trades prop and the component state)
  sectionTrades,  \* the trades prop, as the journal delivers it
  currentPage,    \* currentPage (useState)
  itemsPerPage,   \* itemsPerPage (useState)
  sortBy,         \* sortBy (useState)
  sortOrder,      \* sortOrder (useState)
  \* --- repository failures (the outcome of each call made so far)
  repoLog,        \* the calls made, each with the failure of the store and what the caller got
  \* --- TradingJournal (localStorage, the 'trades' collection, component state)
  tjLocal,        \* localStorage trades_<uid>: the list stored, NoResult when absent
  tjRemote,       \* the documents of 'trades' of the user, in createdAt order
  tjTrades,       \* trades (useState)
  tjEditing,      \* editingTrade (useState): the id of the trade, NoResult for null
  tjPage,         \* "closed", "loading" (loadUserData awaits getDocs) or "open"
  tjClock,        \* the number of ids taken from Date.now() so far
  \* --- history of the TradingJournal, read by the properties only
  tjLeft,         \* the trade list as it was when the page was last closed
  tjLoaded        \* the list set by the last loadUserData that reached the store, else NoResult

statVars == <<statTrades, stats, summary>>
calcVars == <<calcForm, results>>
journalState == <<tradesDb, usedIds, opsStarted, currentUser, trades, dailyTarget, portfolioSummary,
                  lossAlertShownDate, accountAlertShown, editingTrade, calls>>
journalHistory == <<lossAlertLog, lossRecovered, accountAlerts, accountRecovered,
                    statsDay>>
journalVars == <<today, journalState, journalHistory>>
targetForms == <<showEditForm, showCreateForm, targetForm>>
targetViews == <<allTargets, yearSummary, loading, selectedYear>>
targetVars == <<eastOfUTC, clockTime, targetsDb, targetTrades, currentTarget, targetViews,
                targetForms, targetCalls, targetOps, interfered>>
histVars == <<westOfUTC, histTrades, histResult>>
sectionVars == <<sectionTrades, currentPage, itemsPerPage, sortBy, sortOrder>>
repoVars == <<repoLog>>
tjVars == <<tjLocal, tjRemote, tjTrades, tjEditing, tjPage, tjClock, tjLeft, tjLoaded>>
vars == <<statVars, calcVars, journalVars, targetVars, histVars, sectionVars, repoVars, tjVars>>
\* what the actions of one component leave alone
otherThanStats == <<calcVars, journalVars, targetVars, histVars, sectionVars, repoVars, tjVars>>
otherThanCalc == <<statVars, journalVars, targetVars, histVars, sectionVars, repoVars, tjVars>>
otherThanJournal == <<statVars, calcVars, targetVars, histVars, sectionVars, repoVars, tjVars>>
otherThanTargets == <<statVars, calcVars, journalVars, histVars, sectionVars, repoVars, tjVars>>
otherThanHist == <<statVars, calcVars, journalVars, targetVars, sectionVars, repoVars, tjVars>>
otherThanSection == <<statVars, calcVars, journalVars, targetVars, histVars, repoVars, tjVars>>
otherThanRepo == <<statVars, calcVars, journalVars, targetVars, histVars, sectionVars, tjVars>>
otherThanTj == <<statVars, calcVars, journalVars, targetVars, histVars, sectionVars, repoVars>>

\* ------------------------------------------------------------- sequences
RECURSIVE SumSeq(_)
\* Array.reduce((sum, x) => sum + x, 0)
SumSeq(s) == IF s = <<>> THEN 0 ELSE Head(s) + SumSeq(Tail(s))

RECURSIVE MaxSeqFromZero(_)
\* the maximum taken from 0 upwards, as Math.max(0, ...s) gives it
MaxSeqFromZero(s) ==
  IF s = <<>> THEN 0
  ELSE LET m == MaxSeqFromZero(Tail(s)) IN IF Head(s) > m THEN Head(s) ELSE m

RECURSIVE MaxSeq(_)
\* Math.max(...s) of a non-empty list
MaxSeq(s) ==
  IF Len(s) = 1 THEN Head(s)
  ELSE LET m == MaxSeq(Tail(s)) IN IF Head(s) > m THEN Head(s) ELSE m

RECURSIVE MinSeq(_)
\* Math.min(...s) of a non-empty list
MinSeq(s) ==
  IF Len(s) = 1 THEN Head(s)
  ELSE LET m == MinSeq(Tail(s)) IN IF Head(s) < m THEN Head(s) ELSE m

\* trades.map(t => t.netPL)
NetPLs(list) == [i \in 1..Len(list) |-> list[i].netPL]

\* trades.map(t => t.fees)
FeesOf(list) == [i \in 1..Len(list) |-> list[i].fees]

\* the filter of the winners with the comparison a slip would give (>= 0)
CountWinsNonNegative(list) == Cardinality({i \in 1..Len(list) : list[i].netPL >= 0})

\* trades.filter(t => t.netPL > 0).length
CountWins(list) == Cardinality({i \in 1..Len(list) : list[i].netPL > 0})

\* trades.filter(t => t.netPL < 0).length
CountLosses(list) == Cardinality({i \in 1..Len(list) : list[i].netPL < 0})

\* ----------------------------------------------------------- exact quotients
Rat(n, d) == [num |-> n, den |-> d]
RatZero == Rat(0, 1)
\* q >= k and q <= k for an integer k (den > 0)
RatGeq(q, k) == q.num >= k * q.den
RatLeq(q, k) == q.num <= k * q.den
RatIsZero(q) == q.num = 0

\* the rate left as a fraction of 1 (the factor 100 forgotten)
WinRateAsFraction(winningTrades, totalTrades) ==
  IF totalTrades > 0 THEN Rat(winningTrades, totalTrades) ELSE RatZero

\* totalTrades > 0 ? (winningTrades / totalTrades) * 100 : 0
WinRateOf(winningTrades, totalTrades) ==
  IF totalTrades > 0 THEN Rat(winningTrades * 100, totalTrades) ELSE RatZero

\* totalTrades > 0 ? total / totalTrades : 0
AverageOf(total, totalTrades) ==
  IF totalTrades > 0 THEN Rat(total, totalTrades) ELSE RatZero

\* ------------------------------------------------------------ statistics
NoResult == [none |-> TRUE]

\* calculateTradeStats (historicalUtils)
calculateTradeStats(list) ==
  LET totalTrades == Len(list)
      totalPnL == SumSeq(NetPLs(list))
      winningTrades == CountWins(list)
  IN [ totalTrades   |-> totalTrades,
       totalPnL      |-> totalPnL,
       totalFees     |-> SumSeq(FeesOf(list)),
       winningTrades |-> winningTrades,
       losingTrades  |-> CountLosses(list),
       winRate       |-> WinRateOf(winningTrades, totalTrades),
       bestTrade     |-> IF Len(list) > 0 THEN MaxSeq(NetPLs(list)) ELSE 0,
       worstTrade    |-> IF Len(list) > 0 THEN MinSeq(NetPLs(list)) ELSE 0,
       averagePnL    |-> AverageOf(totalPnL, totalTrades) ]

\* the computation of getPortfolioSummary (tradingService) on the loaded list
computePortfolioSummary(list) ==
  LET totalTrades == Len(list)
      totalNetPL == SumSeq(NetPLs(list))
      winningTrades == CountWins(list)
  IN [ totalTrades   |-> totalTrades,
       totalNetPL    |-> totalNetPL,
       totalFees     |-> SumSeq(FeesOf(list)),
       winningTrades |-> winningTrades,
       losingTrades  |-> CountLosses(list),
       winRate       |-> WinRateOf(winningTrades, totalTrades),
       bestTrade     |-> IF Len(list) > 0 THEN MaxSeq(NetPLs(list)) ELSE 0,
       worstTrade    |-> IF Len(list) > 0 THEN MinSeq(NetPLs(list)) ELSE 0,
       averageNetPL  |-> AverageOf(totalNetPL, totalTrades) ]

\* computeSummary of the journal with accounts, on the list it is given
computeSummary(list) ==
  LET totalTrades == Len(list)
      totalNetPL == SumSeq(NetPLs(list))
      winningTrades == CountWins(list)
  IN [ totalTrades   |-> totalTrades,
       totalNetPL    |-> totalNetPL,
       totalFees     |-> SumSeq(FeesOf(list)),
       winningTrades |-> winningTrades,
       losingTrades  |-> CountLosses(list),
       winRate       |-> WinRateOf(winningTrades, totalTrades),
       bestTrade     |-> IF Len(list) > 0 THEN MaxSeq(NetPLs(list)) ELSE 0,
       worstTrade    |-> IF Len(list) > 0 THEN MinSeq(NetPLs(list)) ELSE 0,
       averageNetPL  |-> AverageOf(totalNetPL, totalTrades) ]

\* ------------------------------------------------- position size calculator
\* Units: accountBalance in dollars, riskPercentage in tenths of a percent
\* (step 0.1), stopLossPips and takeProfitPips in tenths of a pip (step 0.1),
\* pipValue in thousandths of a dollar; riskAmount and potentialProfit in
\* cents, lotSize in 1/10000 lot.

\* a parsed number: NaN, or a value
NaN == [nan |-> TRUE, val |-> 0]
Num(v) == [nan |-> FALSE, val |-> v]

\* the texts the inputs take in the model
NumberTexts == {"", "0", "2", "-2", "50", "-50", "100", "-1000", "10000", "-300", "200"}

\* the integer a text of NumberTexts denotes ("" denotes none)
TextValue(s) ==
  CASE s = "0" -> 0
    [] s = "2" -> 2
    [] s = "-2" -> -2
    [] s = "50" -> 50
    [] s = "-50" -> -50
    [] s = "100" -> 100
    [] s = "-1000" -> -1000
    [] s = "-300" -> -300
    [] s = "200" -> 200
    [] s = "10000" -> 10000
    [] s = "1" -> 1
    [] s = "20" -> 20
    [] s = "60" -> 60
    [] s = "1000" -> 1000
    [] OTHER -> 0

\* parseFloat(s), in units of 1/scale: NaN for the empty text
parseFloat(s, scale) == IF s = "" THEN NaN ELSE Num(TextValue(s) * scale)

\* !x for a number x: true for NaN and for 0
Falsy(x) == x.nan \/ x.val = 0

\* a guard that also rejects negative numbers: !(x > 0)
NotPositive(x) == x.nan \/ x.val <= 0

\* pairOptions: pipValue of each pair, in thousandths
PairValues == {"XAUUSD", "USDJPY", "USDCAD"}
PipValueOf(pair) ==
  CASE pair = "XAUUSD" -> 100
    [] pair = "USDJPY" -> 91
    [] pair = "USDCAD" -> 75

Abs(n) == IF n < 0 THEN 0 - n ELSE n
Sign(n) == IF n < 0 THEN 0 - 1 ELSE 1

\* n / d rounded to the nearest integer, halves away from zero (toFixed)
RoundDiv(n, d) ==
  LET an == Abs(n)
      ad == Abs(d)
      q == an \div ad
      r == an % ad
  IN Sign(n) * Sign(d) * (IF 2 * r >= ad THEN q + 1 ELSE q)

RECURSIVE ScaleDiv(_, _, _)
\* floor(an * 10^k / ad) and its remainder for an >= 0, ad > 0, digit by digit
ScaleDiv(an, ad, k) ==
  IF k = 0 THEN [q |-> an \div ad, r |-> an % ad]
  ELSE LET p == ScaleDiv(an, ad, k - 1)
       IN [q |-> p.q * 10 + ((p.r * 10) \div ad), r |-> (p.r * 10) % ad]

\* (n / d).toFixed(k), as an integer count of 10^-k
RoundScaled(n, d, k) ==
  LET p == ScaleDiv(Abs(n), Abs(d), k)
  IN Sign(n) * Sign(d) * (IF 2 * p.r >= Abs(d) THEN p.q + 1 ELSE p.q)

\* the guard of calculatePositionSize on one required number
Rejected(x) == Falsy(x)

\* the calculation that divides the risk by the stop loss alone
PositionSizeWithoutPipValue(form) ==
  LET balance == parseFloat(form.accountBalance, 1)
      riskPercent == parseFloat(form.riskPercentage, 10)
      stopLoss == parseFloat(form.stopLossPips, 10)
      riskMilli == balance.val * riskPercent.val
  IN IF Rejected(balance) \/ Rejected(riskPercent) \/ Rejected(stopLoss)
     THEN NoResult
     ELSE [ lotSize |-> RoundScaled(riskMilli * 100, stopLoss.val, 4),
            riskAmount |-> RoundDiv(riskMilli, 10),
            potentialProfit |-> NaN,
            pipValue |-> PipValueOf(form.pair) ]

\* calculatePositionSize: the value handed to setResults, or NoResult when the
\* function returns early
PositionSize(form) ==
  LET balance == parseFloat(form.accountBalance, 1)
      riskPercent == parseFloat(form.riskPercentage, 10)
      stopLoss == parseFloat(form.stopLossPips, 10)
      takeProfit == IF form.takeProfitPips # "" THEN parseFloat(form.takeProfitPips, 10) ELSE NaN
      pipValue == PipValueOf(form.pair)
      \* riskAmount = balance * riskPercent / 100, as thousandths of a dollar
      riskMilli == balance.val * riskPercent.val
  IN IF Rejected(balance) \/ Rejected(riskPercent) \/ Rejected(stopLoss)
     THEN NoResult
     ELSE [ lotSize |-> RoundScaled(riskMilli * 10, stopLoss.val * pipValue, 4),
            riskAmount |-> RoundDiv(riskMilli, 10),
            potentialProfit |->
              \* null is kept as NaN: both are falsy where the value is read
              IF Falsy(takeProfit) THEN NaN
              ELSE LET cents == RoundDiv(takeProfit.val * riskMilli, 10 * stopLoss.val)
                   IN IF takeProfit.val * riskMilli = 0 THEN NaN ELSE Num(cents),
            pipValue |-> pipValue ]

\* the Risk-Reward Ratio card: nothing (NoResult) unless results.potentialProfit
\* is truthy, else (results.potentialProfit / results.riskAmount).toFixed(2) in
\* hundredths, "Infinity" for a riskAmount of 0
RiskRewardRatio(r) ==
  IF r = NoResult \/ Falsy(r.potentialProfit) THEN NoResult
  ELSE IF r.riskAmount = 0 THEN [text |-> "Infinity"]
  ELSE [hundredths |-> RoundScaled(r.potentialProfit.val, r.riskAmount, 2)]

CalcInit ==
  /\ calcForm = [accountBalance |-> "", riskPercentage |-> "", stopLossPips |-> "",
                 pair |-> "XAUUSD", takeProfitPips |-> ""]
  /\ results = NoResult

\* onChange of one input
SetAccountBalance ==
  /\ \E s \in {"", "0", "-1000", "1", "10000"} :
       calcForm' = [calcForm EXCEPT !.accountBalance = s]
  /\ UNCHANGED results
  /\ UNCHANGED otherThanCalc

SetRiskPercentage ==
  /\ \E s \in {"", "0", "-2", "2"} : calcForm' = [calcForm EXCEPT !.riskPercentage = s]
  /\ UNCHANGED results
  /\ UNCHANGED otherThanCalc

SetStopLossPips ==
  /\ \E s \in {"", "0", "-50", "50"} : calcForm' = [calcForm EXCEPT !.stopLossPips = s]
  /\ UNCHANGED results
  /\ UNCHANGED otherThanCalc

SetPair ==
  /\ \E s \in PairValues : calcForm' = [calcForm EXCEPT !.pair = s]
  /\ UNCHANGED results
  /\ UNCHANGED otherThanCalc

SetTakeProfitPips ==
  /\ \E s \in {"", "0", "60", "100"} : calcForm' = [calcForm EXCEPT !.takeProfitPips = s]
  /\ UNCHANGED results
  /\ UNCHANGED otherThanCalc

\* results after a call that clears them when the inputs are rejected
ResultsClearedOnRejection(form, stored) == PositionSize(form)

\* results after calculatePositionSize(): the early return leaves them as
\* they are stored, setResults replaces them
ResultsAfterCalculate(form, stored) ==
  IF PositionSize(form) = NoResult THEN stored ELSE PositionSize(form)

\* the Calculate button: calculatePositionSize()
calculatePositionSize ==
  /\ results' = ResultsAfterCalculate(calcForm, results)
  /\ UNCHANGED calcForm
  /\ UNCHANGED otherThanCalc

\* the Reset button: resetForm()
CalcResetForm ==
  /\ calcForm' = [accountBalance |-> "", riskPercentage |-> "", stopLossPips |-> "",
                  pair |-> "XAUUSD", takeProfitPips |-> ""]
  /\ results' = NoResult
  /\ UNCHANGED otherThanCalc

CalcNext ==
  \/ SetAccountBalance
  \/ SetRiskPercentage
  \/ SetStopLossPips
  \/ SetPair
  \/ SetTakeProfitPips
  \/ calculatePositionSize
  \/ CalcResetForm


\* ----------------------------------------------------- calculator: claims
StrictlyPositive(x) == ~x.nan /\ x.val > 0

\* C8: calculatePositionSize sets a result only when the account balance, the
\* risk percentage and the stop-loss distance are all three present and
\* strictly positive; with one of them missing, zero or negative it sets none.
ClaimC8 ==
  [][ (results' # results /\ results' # NoResult) =>
        /\ StrictlyPositive(parseFloat(calcForm.accountBalance, 1))
        /\ StrictlyPositive(parseFloat(calcForm.riskPercentage, 10))
        /\ StrictlyPositive(parseFloat(calcForm.stopLossPips, 10)) ]_vars

\* the three required inputs of the form are present and strictly positive
ValidInputs(form) ==
  /\ StrictlyPositive(parseFloat(form.accountBalance, 1))
  /\ StrictlyPositive(parseFloat(form.riskPercentage, 10))
  /\ StrictlyPositive(parseFloat(form.stopLossPips, 10))

\* a calculatePositionSize call has set results from the form
Calculated == results' # NoResult /\ calcForm' = calcForm /\ results' = PositionSize(calcForm)

\* lots * stopLoss * pipValue - amount, in 10^-8 dollars, for lots in 1/10000
\* lot, stopLoss in tenths of a pip, pipValue in thousandths of a dollar and
\* amount in 10^-8 dollars given as coarse * 10^4; the product is taken in two
\* parts so that every intermediate value stays small
ProductGap(lots, stopLoss, pipValue, coarseAmount) ==
  ((lots \div 10000) * stopLoss * pipValue - coarseAmount) * 10000
    + (lots % 10000) * stopLoss * pipValue

\* the same gap is at most `tolerance`
ProductWithin(lots, stopLoss, pipValue, coarseAmount, tolerance) ==
  /\ Abs((lots \div 10000) * stopLoss * pipValue - coarseAmount) <= stopLoss * pipValue
  /\ Abs(ProductGap(lots, stopLoss, pipValue, coarseAmount)) <= tolerance

\* the scenario: balance 10000, risk 2 %, stop loss 50 pips, pip value 0.1
CalcScenario ==
  [accountBalance |-> "10000", riskPercentage |-> "2", stopLossPips |-> "50",
   pair |-> "XAUUSD", takeProfitPips |-> ""]

\* C21: for valid inputs the reported riskAmount is balance * riskPercent /
\* 100 (to the cent), the reported positionSize is that amount divided by
\* stopLoss * pipValue (to 1/10000 lot), and positionSize * stopLoss *
\* pipValue gives back the reported riskAmount within half a cent plus half a
\* 1/10000 lot; balance 10000, risk 2, stop loss 50, pip value 0.1 give
\* riskAmount 200.00 and positionSize 40.0000.
TheoremC21 ==
  [][ (Calculated /\ ValidInputs(calcForm)) =>
        LET balance == parseFloat(calcForm.accountBalance, 1).val
            riskPercent == parseFloat(calcForm.riskPercentage, 10).val
            stopLoss == parseFloat(calcForm.stopLossPips, 10).val
            pipValue == PipValueOf(calcForm.pair)
        IN /\ PositionSize(CalcScenario).riskAmount = 20000
           /\ PositionSize(CalcScenario).lotSize = 400000
           /\ Abs(results'.riskAmount * 10 - balance * riskPercent) <= 5
           /\ ProductWithin(results'.lotSize, stopLoss, pipValue,
                            balance * riskPercent * 10, (stopLoss * pipValue) \div 2)
           /\ ProductWithin(results'.lotSize, stopLoss, pipValue,
                            results'.riskAmount * 100,
                            500000 + (stopLoss * pipValue) \div 2) ]_vars

\* a result for valid inputs whose lot size is not a whole number of 1/10000
\* lot before rounding: 200 / (50 * 0.091)
WitnessC21 ==
  /\ results # NoResult
  /\ results = PositionSize(calcForm)
  /\ ValidInputs(calcForm)
  /\ results.pipValue = 91
  /\ results.lotSize = 439560
  /\ results.riskAmount = 20000

\* C22: every output is rounded once from unrounded values: riskAmount and
\* potentialProfit to the cent, positionSize to 1/10000 lot, and the ratio
\* shown is potentialProfit / riskAmount of the unrounded values, which is
\* takeProfit / stopLoss, to two decimals.
ClaimC22 ==
  [][ (Calculated /\ ValidInputs(calcForm)
         /\ StrictlyPositive(parseFloat(calcForm.takeProfitPips, 10))) =>
        LET riskMilli == parseFloat(calcForm.accountBalance, 1).val
                           * parseFloat(calcForm.riskPercentage, 10).val
            stopLoss == parseFloat(calcForm.stopLossPips, 10).val
            takeProfit == parseFloat(calcForm.takeProfitPips, 10).val
            pipValue == PipValueOf(calcForm.pair)
        IN /\ Abs(results'.riskAmount * 10 - riskMilli) <= 5
           /\ ProductWithin(results'.lotSize, stopLoss, pipValue, riskMilli * 10,
                            (stopLoss * pipValue) \div 2)
           /\ Abs(results'.potentialProfit.val * 10 * stopLoss - takeProfit * riskMilli)
                <= 5 * stopLoss
           /\ RiskRewardRatio(results') = [hundredths |-> RoundScaled(takeProfit, stopLoss, 2)]
    ]_vars

\* the form as resetForm leaves it
ResetFormData ==
  [accountBalance |-> "", riskPercentage |-> "", stopLossPips |-> "",
   pair |-> "XAUUSD", takeProfitPips |-> ""]

\* C30: the stored results change only by a calculation whose inputs are
\* accepted, which stores its values, or by resetForm, which clears them; a
\* calculatePositionSize call on rejected inputs leaves them as they are, null
\* or the results of the last accepted calculation.
TheoremC30 ==
  [][ results' # results =>
        \/ /\ calcForm' = calcForm
           /\ PositionSize(calcForm) # NoResult
           /\ results' = PositionSize(calcForm)
        \/ /\ calcForm' = ResetFormData
           /\ results' = NoResult ]_vars

\* results of an accepted calculation are stored and the inputs entered now
\* are rejected: a Calculate click leaves the results of the other inputs
WitnessC30 ==
  /\ results # NoResult
  /\ calcForm # ResetFormData
  /\ PositionSize(calcForm) = NoResult
  /\ ResultsAfterCalculate(calcForm, results) = results

\* ------------------------------------------------- statistics: the inputs
Days == 1..MaxDay
Symbols == {"XAUUSD", "EURUSD"}
StatNetPLs == {-50, 0, 100}

\* a Trade as the statistics read it (types/trading.ts: date, symbol, fees, netPL)
StatTrade(d, s, n) ==
  [id |-> 0, date |-> d, symbol |-> s, plAmount |-> n, fees |-> 0, netPL |-> n]

StatsInit ==
  /\ statTrades = <<>>
  /\ stats = NoResult
  /\ summary = NoResult

\* the caller hands over a list one trade longer
StatsInput ==
  /\ Len(statTrades) < MaxLen
  /\ \E d \in Days, s \in Symbols, n \in StatNetPLs :
       statTrades' = Append(statTrades, StatTrade(d, s, n))
  /\ stats' = NoResult
  /\ summary' = NoResult
  /\ UNCHANGED otherThanStats

\* calculateTradeStats(trades)
StatsCompute ==
  /\ stats = NoResult
  /\ stats' = calculateTradeStats(statTrades)
  /\ UNCHANGED <<statTrades, summary>>
  /\ UNCHANGED otherThanStats

\* getPortfolioSummary: the summary of the list getUserTrades returned
SummaryCompute ==
  /\ summary = NoResult
  /\ summary' = computePortfolioSummary(statTrades)
  /\ UNCHANGED <<statTrades, stats>>
  /\ UNCHANGED otherThanStats

StatsNext == StatsInput \/ StatsCompute \/ SummaryCompute


\* ---------------------------------------------------- statistics: claims
BreakEven(list) == {i \in 1..Len(list) : list[i].netPL = 0}

\* the three-way classification of one result r for the input list
ThreeWay(r, list) ==
  /\ r.totalTrades = Len(list)
  /\ r.winningTrades = Cardinality({i \in 1..Len(list) : list[i].netPL > 0})
  /\ r.losingTrades = Cardinality({i \in 1..Len(list) : list[i].netPL < 0})
  /\ r.winningTrades + r.losingTrades <= r.totalTrades
  /\ (r.winningTrades + r.losingTrades = r.totalTrades) <=> (BreakEven(list) = {})

\* C9: for every trade list, calculateTradeStats and getPortfolioSummary count
\* as winning the trades with netPL > 0 and as losing those with netPL < 0; a
\* trade with netPL = 0 is in neither count, so winning + losing <= total, with
\* equality exactly when the list has no break-even trade.
TheoremC9 ==
  /\ stats # NoResult => ThreeWay(stats, statTrades)
  /\ summary # NoResult => ThreeWay(summary, statTrades)

\* both functions have run on a list with a winner, a loser and a break-even trade
WitnessC9 ==
  /\ stats # NoResult
  /\ summary # NoResult
  /\ BreakEven(statTrades) # {}
  /\ stats.winningTrades > 0
  /\ summary.losingTrades > 0

\* winRate is the number winningTrades / totalTrades * 100, within [0, 100]
WinRateInRange(r) ==
  /\ r.winRate.den > 0
  /\ r.totalTrades > 0 => r.winRate.num * r.totalTrades = r.winningTrades * 100 * r.winRate.den
  /\ RatGeq(r.winRate, 0)
  /\ RatLeq(r.winRate, 100)

\* C10 as stated: winRate = winningTrades / totalTrades * 100 lies in [0, 100]
\* and is 0 exactly when totalTrades = 0.
OriginalC10 ==
  stats # NoResult =>
    /\ WinRateInRange(stats)
    /\ RatIsZero(stats.winRate) <=> (stats.totalTrades = 0)

\* C10 as amended: winRate = winningTrades / totalTrades * 100 lies in
\* [0, 100] and is 0 exactly when there is no winning trade (which includes
\* the empty list).
TheoremC10 ==
  stats # NoResult =>
    /\ WinRateInRange(stats)
    /\ RatIsZero(stats.winRate) <=> (stats.winningTrades = 0)
    /\ stats.totalTrades = 0 => RatIsZero(stats.winRate)

\* a list of two trades none of which wins has winRate 0
WitnessC10 ==
  /\ stats # NoResult
  /\ stats.totalTrades = 2
  /\ stats.winningTrades = 0
  /\ RatIsZero(stats.winRate)

\* bestTrade and worstTrade of a result r for the list: the largest and the
\* smallest netPL of the list, 0 for the empty list
BestAndWorst(r, list) ==
  IF list = <<>>
  THEN r.bestTrade = 0 /\ r.worstTrade = 0
  ELSE /\ \E i \in 1..Len(list) : list[i].netPL = r.bestTrade
       /\ \A i \in 1..Len(list) : list[i].netPL <= r.bestTrade
       /\ \E i \in 1..Len(list) : list[i].netPL = r.worstTrade
       /\ \A i \in 1..Len(list) : list[i].netPL >= r.worstTrade

\* the summary of the empty set
EmptySummary(r) ==
  /\ r.totalTrades = 0
  /\ r.totalNetPL = 0
  /\ RatIsZero(r.winRate)
  /\ r.bestTrade = 0
  /\ r.worstTrade = 0
  /\ RatIsZero(r.averageNetPL)

\* C11: in every summary (calculateTradeStats, getPortfolioSummary,
\* computeSummary) bestTrade is the maximum and worstTrade the minimum netPL
\* of the trades, both 0 for the empty set; the summary of the empty set is
\* totalTrades 0, totalNetPL 0, winRate 0, bestTrade 0, worstTrade 0,
\* averageNetPL 0, and it is a result, not an error.
TheoremC11 ==
  /\ stats # NoResult =>
       /\ BestAndWorst(stats, statTrades)
       /\ statTrades = <<>> =>
            (stats.totalTrades = 0 /\ stats.totalPnL = 0 /\ RatIsZero(stats.winRate)
               /\ RatIsZero(stats.averagePnL))
  /\ summary # NoResult =>
       /\ BestAndWorst(summary, statTrades)
       /\ statTrades = <<>> => EmptySummary(summary)
  /\ BestAndWorst(computeSummary(statTrades), statTrades)
  /\ statTrades = <<>> => EmptySummary(computeSummary(statTrades))

\* the summaries of a list of two trades that both lose: bestTrade is negative
WitnessC11 ==
  /\ stats # NoResult
  /\ summary # NoResult
  /\ Len(statTrades) = 2
  /\ summary.bestTrade < 0
  /\ stats.bestTrade = stats.worstTrade

\* ------------------------------------------------------ journal: helpers
\* the daily loss limit and the account drawdown limit of the alerts
DailyLossLimit == -300
AccountDrawdownLimit == -500

\* const netPL = plAmount - fees, written with the fees left out
NetPLWithoutFees(plAmount, fees) == plAmount

\* const netPL = plAmount - fees
NetPLOf(plAmount, fees) == plAmount - fees

\* parseFloat(formData.fees) || 0
FeesValue(text) == LET f == parseFloat(text, 1) IN IF Falsy(f) THEN 0 ELSE f.val

\* tradeData of handleSubmit for the texts of the form (the id is the document's)
TradeData(id, date, symbol, plText, feesText) ==
  LET plAmount == parseFloat(plText, 1).val
      fees == FeesValue(feesText)
  IN [id |-> id, date |-> date, symbol |-> symbol, plAmount |-> plAmount,
      fees |-> fees, netPL |-> NetPLOf(plAmount, fees)]

\* orderBy('date', 'desc'): documents of equal date follow in the order of
\* their ids, descending
DocBefore(x, y) == x.date > y.date \/ (x.date = y.date /\ x.id > y.id)

RECURSIVE OrderDocs(_)
OrderDocs(docs) ==
  IF docs = {} THEN <<>>
  ELSE LET first == CHOOSE x \in docs : \A y \in docs \ {x} : DocBefore(x, y)
       IN <<first>> \o OrderDocs(docs \ {first})

\* getUserTrades: the user's documents, ordered by date descending
getUserTrades(docs) == OrderDocs(docs)

RECURSIVE InsertDateDesc(_, _)
\* the place of t in a list sorted by date descending, after the trades of its date
InsertDateDesc(sorted, t) ==
  IF sorted = <<>> THEN <<t>>
  ELSE IF Head(sorted).date >= t.date
       THEN <<Head(sorted)>> \o InsertDateDesc(Tail(sorted), t)
       ELSE <<t>> \o sorted

RECURSIVE SortByDateDesc(_)
\* [...allTrades].sort((a, b) => new Date(b.date) - new Date(a.date)): stable
SortByDateDesc(list) ==
  IF list = <<>> THEN <<>>
  ELSE InsertDateDesc(SortByDateDesc(SubSeq(list, 1, Len(list) - 1)), list[Len(list)])

RECURSIVE WinStreakNonNegative(_)
\* the streak that a break-even trade continues
WinStreakNonNegative(sorted) ==
  IF sorted = <<>> THEN 0
  ELSE IF Head(sorted).netPL >= 0 THEN 1 + WinStreakNonNegative(Tail(sorted)) ELSE 0

RECURSIVE WinStreak(_)
\* for (const trade of sortedTrades) { if (trade.netPL > 0) streak++; else break; }
WinStreak(sorted) ==
  IF sorted = <<>> THEN 0
  ELSE IF Head(sorted).netPL > 0 THEN 1 + WinStreak(Tail(sorted)) ELSE 0

\* allTrades.filter(trade => trade.date === today)
TodayTrades(allTrades, day) == SelectSeq(allTrades, LAMBDA t : t.date = day)

\* calculateDailyStats(allTrades) on the day `day`: the new dailyTarget
calculateDailyStats(allTrades, day) ==
  [ currentDayPnL    |-> SumSeq(NetPLs(TodayTrades(allTrades, day))),
    currentDayTrades |-> Len(TodayTrades(allTrades, day)),
    streak           |-> WinStreak(SortByDateDesc(allTrades)) ]

\* the daily loss alert raised whenever the day's P&L is at the limit
LossAlertDueEveryTime(pnl, shownDate, day) == pnl <= DailyLossLimit

\* dailyTarget.currentDayPnL <= -300 && lossAlertShownDate !== today
LossAlertDue(pnl, shownDate, day) == pnl <= DailyLossLimit /\ shownDate # day

\* the account alert raised whenever the total is at the limit
AccountAlertDueEveryTime(s, shown) == s # NoResult /\ s.totalNetPL <= AccountDrawdownLimit

\* portfolioSummary && portfolioSummary.totalNetPL <= -500 && !accountAlertShown
AccountAlertDue(s, shown) ==
  s # NoResult /\ s.totalNetPL <= AccountDrawdownLimit /\ ~shown

\* The two alert effects, run after the render that follows a state change.
\* The daily effect runs when dailyTarget.currentDayPnL has changed, the
\* account effect when portfolioSummary was set (a new object each time).
\* Setting the flag runs the effect once more, which then finds it set.
RunEffects(newPnL, summarySet, newSummary) ==
  /\ IF newPnL # dailyTarget.currentDayPnL /\ LossAlertDue(newPnL, lossAlertShownDate, today)
     THEN /\ lossAlertShownDate' = today
          /\ lossAlertLog' = Append(lossAlertLog, today)
     ELSE UNCHANGED <<lossAlertShownDate, lossAlertLog>>
  /\ lossRecovered' =
       IF newPnL # dailyTarget.currentDayPnL /\ newPnL > DailyLossLimit
          /\ lossAlertShownDate = today
       THEN today ELSE lossRecovered
  /\ IF summarySet /\ AccountAlertDue(newSummary, accountAlertShown)
     THEN /\ accountAlertShown' = TRUE
          /\ accountAlerts' = accountAlerts + 1
     ELSE UNCHANGED <<accountAlertShown, accountAlerts>>
  /\ accountRecovered' =
       (accountRecovered \/ (summarySet /\ accountAlerts > 0
                             /\ newSummary.totalNetPL > AccountDrawdownLimit))

\* formData.symbol.toUpperCase() of the one symbol entered in the journal
JournalSymbol == "XAUUSD"

\* ------------------------------------------------------- journal: actions
\* a call in flight: the handler, the await it is at, the `trades` of the
\* render it was created in, and the write it was started with
Call(kind, pc, closure, id, data) ==
  [kind |-> kind, pc |-> pc, closure |-> closure, id |-> id, data |-> data]
NoData == [id |-> 0, date |-> 0, symbol |-> "", plAmount |-> 0, fees |-> 0, netPL |-> 0]

RemoveAt(seq, i) == SubSeq(seq, 1, i - 1) \o SubSeq(seq, i + 1, Len(seq))
ReplaceAt(seq, i, x) == [seq EXCEPT ![i] = x]

\* what the collection holds when the session starts: nothing, or a trade
\* stored in an earlier session
StoredAtStart == { {}, {TradeData(1, 1, JournalSymbol, "-300", "")} }

JournalInit ==
  /\ today = 1
  /\ tradesDb \in StoredAtStart
  /\ usedIds = {d.id : d \in tradesDb}
  /\ currentUser = FALSE
  /\ trades = <<>>
  /\ dailyTarget = [currentDayPnL |-> 0, currentDayTrades |-> 0, streak |-> 0]
  /\ portfolioSummary = NoResult
  /\ lossAlertShownDate = 0
  /\ accountAlertShown = FALSE
  /\ editingTrade = 0
  /\ calls = <<>>
  /\ lossAlertLog = <<>>
  /\ lossRecovered = 0
  /\ accountAlerts = 0
  /\ accountRecovered = FALSE
  /\ statsDay = 0
  /\ opsStarted = 0

\* midnight (UTC) passes
NextDay ==
  /\ today < MaxDay
  /\ today' = today + 1
  /\ UNCHANGED <<journalState, journalHistory, otherThanJournal>>

\* onAuthStateChanged(user): loadTrades and loadPortfolioSummary are started
\* together; both are the functions of the first render, whose trades is []
AuthStateChanged ==
  /\ ~currentUser
  /\ currentUser' = TRUE
  /\ calls' = calls \o << Call("auth", "loadTrades", <<>>, 0, NoData),
                          Call("auth", "loadSummary", <<>>, 0, NoData) >>
  /\ UNCHANGED <<today, tradesDb, usedIds, opsStarted, trades, dailyTarget, portfolioSummary,
                 lossAlertShownDate, accountAlertShown, editingTrade,
                 journalHistory, otherThanJournal>>

\* handleEdit(trade) on a row of the table
handleEdit ==
  /\ \E i \in 1..Len(trades) : editingTrade' = trades[i].id
  /\ UNCHANGED <<today, tradesDb, usedIds, opsStarted, currentUser, trades, dailyTarget,
                 portfolioSummary, lossAlertShownDate, accountAlertShown, calls,
                 journalHistory, otherThanJournal>>

\* handleCancel
handleCancel ==
  /\ editingTrade # 0
  /\ editingTrade' = 0
  /\ UNCHANGED <<today, tradesDb, usedIds, opsStarted, currentUser, trades, dailyTarget,
                 portfolioSummary, lossAlertShownDate, accountAlertShown, calls,
                 journalHistory, otherThanJournal>>

\* the texts of the P&L Amount and Fees inputs at a submission
FormTexts == {<<"-300", "">>, <<"-300", "50">>, <<"200", "50">>}

\* the handleSubmit and handleDelete calls in flight
HandlerCalls == Cardinality({i \in 1..Len(calls) : calls[i].kind # "auth"})

\* the createTrade calls in flight
Creating == Cardinality({i \in 1..Len(calls) :
                           calls[i].kind = "submit" /\ calls[i].pc = "write" /\ calls[i].id = 0})

\* handleSubmit, up to its first await (updateTrade or createTrade)
handleSubmit ==
  /\ currentUser
  /\ HandlerCalls < MaxCalls
  /\ opsStarted < MaxOps
  /\ editingTrade = 0 => Cardinality(usedIds) + Creating < MaxTrades
  /\ \E date \in Days, texts \in FormTexts :
       calls' = Append(calls, Call("submit", "write", trades, editingTrade,
                                   TradeData(0, date, JournalSymbol, texts[1], texts[2])))
  /\ opsStarted' = opsStarted + 1
  /\ UNCHANGED <<today, tradesDb, usedIds, currentUser, trades, dailyTarget,
                 portfolioSummary, lossAlertShownDate, accountAlertShown, editingTrade,
                 journalHistory, otherThanJournal>>

\* handleDelete(tradeId), confirmed, up to its first await (deleteTrade)
handleDelete ==
  /\ HandlerCalls < MaxCalls
  /\ opsStarted < MaxOps
  /\ \E i \in 1..Len(trades) :
       calls' = Append(calls, Call("delete", "write", trades, trades[i].id, NoData))
  /\ opsStarted' = opsStarted + 1
  /\ UNCHANGED <<today, tradesDb, usedIds, currentUser, trades, dailyTarget,
                 portfolioSummary, lossAlertShownDate, accountAlertShown, editingTrade,
                 journalHistory, otherThanJournal>>

\* createTrade: addDoc stores the trade under a new id; then loadTrades starts
CreateTradeDone(i) ==
  /\ calls[i].kind = "submit" /\ calls[i].pc = "write" /\ calls[i].id = 0
  /\ LET id == Cardinality(usedIds) + 1
     IN /\ tradesDb' = tradesDb \cup {[calls[i].data EXCEPT !.id = id]}
        /\ usedIds' = usedIds \cup {id}
  /\ calls' = ReplaceAt(calls, i, [calls[i] EXCEPT !.pc = "loadTrades"])
  /\ UNCHANGED <<today, opsStarted, currentUser, trades, dailyTarget, portfolioSummary,
                 lossAlertShownDate, accountAlertShown, editingTrade,
                 lossAlertLog, lossRecovered, accountAlerts, accountRecovered, statsDay,
                 otherThanJournal>>

\* updateTrade: updateDoc replaces the fields of tradeData in the document;
\* setEditingTrade(null); then loadTrades starts.  updateDoc of a document
\* that no longer exists throws: the catch of handleSubmit ends the call.
UpdateTradeDone(i) ==
  /\ calls[i].kind = "submit" /\ calls[i].pc = "write" /\ calls[i].id # 0
  /\ IF \E d \in tradesDb : d.id = calls[i].id
     THEN /\ tradesDb' = {IF d.id = calls[i].id THEN [calls[i].data EXCEPT !.id = d.id] ELSE d :
                            d \in tradesDb}
          /\ editingTrade' = 0
          /\ calls' = ReplaceAt(calls, i, [calls[i] EXCEPT !.pc = "loadTrades"])
     ELSE /\ calls' = RemoveAt(calls, i)
          /\ UNCHANGED <<tradesDb, editingTrade>>
  /\ UNCHANGED <<today, usedIds, opsStarted, currentUser, trades, dailyTarget, portfolioSummary,
                 lossAlertShownDate, accountAlertShown,
                 lossAlertLog, lossRecovered, accountAlerts, accountRecovered, statsDay,
                 otherThanJournal>>

\* deleteTrade: deleteDoc; then loadTrades starts
DeleteTradeDone(i) ==
  /\ calls[i].kind = "delete" /\ calls[i].pc = "write"
  /\ tradesDb' = {d \in tradesDb : d.id # calls[i].id}
  /\ calls' = ReplaceAt(calls, i, [calls[i] EXCEPT !.pc = "loadTrades"])
  /\ UNCHANGED <<today, usedIds, opsStarted, currentUser, trades, dailyTarget, portfolioSummary,
                 lossAlertShownDate, accountAlertShown, editingTrade,
                 lossAlertLog, lossRecovered, accountAlerts, accountRecovered, statsDay,
                 otherThanJournal>>

\* loadTrades: getUserTrades resolves; setTrades(userTrades);
\* calculateDailyStats(userTrades).  In a handler, loadPortfolioSummary starts.
LoadTradesDone(i) ==
  /\ calls[i].pc = "loadTrades"
  /\ LET userTrades == getUserTrades(tradesDb)
         daily == calculateDailyStats(userTrades, today)
     IN /\ trades' = userTrades
        /\ dailyTarget' = daily
        /\ RunEffects(daily.currentDayPnL, FALSE, NoResult)
  /\ statsDay' = today
  /\ calls' = IF calls[i].kind = "auth" THEN RemoveAt(calls, i)
              ELSE ReplaceAt(calls, i, [calls[i] EXCEPT !.pc = "loadSummary"])
  /\ UNCHANGED <<today, tradesDb, usedIds, opsStarted, currentUser, portfolioSummary, editingTrade,
                 otherThanJournal>>

\* loadPortfolioSummary: getPortfolioSummary resolves; setPortfolioSummary(summary);
\* calculateDailyStats(trades), with the trades of the render the function
\* was created in.  The handler then resets the form and ends.
LoadSummaryDone(i) ==
  /\ calls[i].pc = "loadSummary"
  /\ LET newSummary == computePortfolioSummary(getUserTrades(tradesDb))
         daily == calculateDailyStats(calls[i].closure, today)
     IN /\ portfolioSummary' = newSummary
        /\ dailyTarget' = daily
        /\ RunEffects(daily.currentDayPnL, TRUE, newSummary)
  /\ statsDay' = today
  /\ calls' = RemoveAt(calls, i)
  /\ UNCHANGED <<today, tradesDb, usedIds, opsStarted, currentUser, trades, editingTrade,
                 otherThanJournal>>

JournalNext ==
  \/ NextDay
  \/ AuthStateChanged
  \/ handleEdit
  \/ handleCancel
  \/ handleSubmit
  \/ handleDelete
  \/ \E i \in 1..Len(calls) : CreateTradeDone(i)
  \/ \E i \in 1..Len(calls) : UpdateTradeDone(i)
  \/ \E i \in 1..Len(calls) : DeleteTradeDone(i)
  \/ \E i \in 1..Len(calls) : LoadTradesDone(i)
  \/ \E i \in 1..Len(calls) : LoadSummaryDone(i)

\* -------------------------------------------------------- journal: claims
PlAmountsOf(list) == [i \in 1..Len(list) |-> list[i].plAmount]
Range(seq) == {seq[i] : i \in 1..Len(seq)}

\* C4: after any creations, edits and deletions made through the journal form,
\* every stored trade has netPL = plAmount - fees, and so has every trade of
\* the loaded list; the total net P&L of the stored trades is the sum of their
\* plAmount minus the sum of their fees.
TheoremC4 ==
  /\ \A d \in tradesDb : d.netPL = d.plAmount - d.fees
  /\ \A i \in 1..Len(trades) : trades[i].netPL = trades[i].plAmount - trades[i].fees
  /\ LET stored == getUserTrades(tradesDb)
     IN computePortfolioSummary(stored).totalNetPL
          = SumSeq(PlAmountsOf(stored)) - SumSeq(FeesOf(stored))

\* two trades are stored, one with fees, and the third submission of the
\* session (an edit, two trades being the most created) has completed
WitnessC4 ==
  /\ Cardinality(tradesDb) = 2
  /\ opsStarted = 3
  /\ calls = <<>>
  /\ \E d \in tradesDb : d.fees > 0 /\ d.netPL < d.plAmount
  /\ Len(trades) = 2

\* C5: whenever no load is in flight, the shown currentDayPnL is the sum of
\* netPL, and currentDayTrades the count, over the trades of the loaded list
\* dated today.  (Stated for the day on which the statistics were last
\* computed: the passing of midnight alone is not held against the code.)
ClaimC5 ==
  (currentUser /\ calls = <<>> /\ statsDay = today) =>
    /\ dailyTarget.currentDayPnL = SumSeq(NetPLs(SelectSeq(trades, LAMBDA t : t.date = today)))
    /\ dailyTarget.currentDayTrades = Len(SelectSeq(trades, LAMBDA t : t.date = today))

TheoremC7 ==
  /\ [](accountAlerts <= 1)
  /\ [](accountAlerts = 1 <=> accountAlertShown)
  /\ [][ accountAlerts' > accountAlerts =>
           /\ portfolioSummary' # NoResult
           /\ portfolioSummary'.totalNetPL <= -500 ]_vars

\* after the alert the total rose above -500 and fell to it again: no second alert
WitnessC7 ==
  /\ accountAlerts = 1
  /\ accountRecovered
  /\ portfolioSummary # NoResult
  /\ portfolioSummary.totalNetPL <= -500

\* ------------------------------------------------ monthly targets: service
\* the years of the year selector (two of its five options)
Years == {2024, 2025}
\* getCurrentMonth(): the clock stays in the first month of the last of the years
ThisYear == CHOOSE y \in Years : \A z \in Years : z <= y
ThisMonth == 1

\* the model calendar: month m holds the days FirstDayOf(m) .. LastDayOf(m)
FirstDayOf(month) == (month - 1) * DaysPerMonth + 1
LastDayOf(month) == month * DaysPerMonth

\* new Date(y, m, d).toISOString().split('T')[0] for the local midnight of a
\* day: the UTC date of that instant, the day before in a zone east of UTC
LocalMidnightISODate(day) == IF eastOfUTC THEN day - 1 ELSE day

\* filterTradesByDateRange (historicalUtils): both bounds included
\* the filter that leaves out the trades dated on the end date
filterTradesBeforeEnd(list, startDate, endDate) ==
  SelectSeq(list, LAMBDA t : t.date >= startDate /\ t.date < endDate)

filterTradesByDateRange(list, startDate, endDate) ==
  SelectSeq(list, LAMBDA t : t.date >= startDate /\ t.date <= endDate)

\* the texts number.toString() gives for the numbers of the model
NumberText(n) ==
  CASE n = 1 -> "1"
    [] n = 2 -> "2"
    [] n = 20 -> "20"
    [] n = 50 -> "50"
    [] n = 60 -> "60"
    [] n = 100 -> "100"
    [] n = 1000 -> "1000"
    [] OTHER -> "0"

\* parseInt(s) of a text without fraction part
parseInt(s) == parseFloat(s, 1)

Reverse(seq) == [i \in 1..Len(seq) |-> seq[Len(seq) + 1 - i]]
InsertAt(seq, p, x) == SubSeq(seq, 1, p - 1) \o <<x>> \o SubSeq(seq, p, Len(seq))

\* a query ordered by key ascending, keys[i] the key of seq[i]; documents of
\* equal key keep their order
OrderBy(seq, keys) ==
  LET n == Len(seq)
      rank(i) == 1 + Cardinality({j \in 1..n : \/ keys[j] < keys[i]
                                                \/ (keys[j] = keys[i] /\ j < i)})
  IN [p \in 1..n |-> seq[CHOOSE i \in 1..n : rank(i) = p]]

\* the target data of a new or edited target (getCurrentMonthTarget l.148-160,
\* handleSubmit l.115-127): progress zero, not completed
\* the new target marked completed when the progress 0 meets its targets
TargetDataCompletedWhenMet(year, month, pnlTarget, tradesTarget, winRateTarget) ==
  [ year |-> year, month |-> month,
    pnlTarget |-> pnlTarget, tradesTarget |-> tradesTarget,
    winRateTarget |-> winRateTarget,
    currentPnL |-> 0, currentTrades |-> 0, currentWinRate |-> RatZero,
    isCompleted |-> (0 >= pnlTarget /\ 0 >= tradesTarget /\ 0 >= winRateTarget) ]

TargetData(year, month, pnlTarget, tradesTarget, winRateTarget) ==
  [ year |-> year, month |-> month,
    pnlTarget |-> pnlTarget, tradesTarget |-> tradesTarget,
    winRateTarget |-> winRateTarget,
    currentPnL |-> 0, currentTrades |-> 0, currentWinRate |-> RatZero,
    isCompleted |-> FALSE ]

\* updateDoc: the fields of updates replace those of the document
MergeFields(doc, updates) ==
  [f \in DOMAIN doc |-> IF f \in DOMAIN updates THEN updates[f] ELSE doc[f]]

\* createMonthlyTarget: addDoc stores the target under a new id, which falls
\* at place p of the id order; completedAt 0 stands for a missing completedAt
createMonthlyTarget(docs, id, target, p) ==
  InsertAt(docs, p, MergeFields([id |-> id, year |-> 0, month |-> 0,
                                 pnlTarget |-> 0, tradesTarget |-> 0, winRateTarget |-> 0,
                                 currentPnL |-> 0, currentTrades |-> 0,
                                 currentWinRate |-> RatZero, isCompleted |-> FALSE,
                                 completedAt |-> 0], target))

\* getMonthlyTargetById
getMonthlyTargetById(docs, id) ==
  LET found == SelectSeq(docs, LAMBDA d : d.id = id)
  IN IF found = <<>> THEN NoResult ELSE Head(found)

\* getUserMonthlyTargets: year descending, month descending, then id
\* descending; the model keeps the ids of the targets
getUserMonthlyTargets(docs) ==
  LET newestFirst == Reverse(docs)
      targets == OrderBy(newestFirst, [i \in 1..Len(newestFirst) |->
                           0 - (newestFirst[i].year * 12 + newestFirst[i].month)])
  IN [i \in 1..Len(targets) |-> targets[i].id]

\* getMonthlyTarget: querySnapshot.docs[0] of the targets of (year, month)
getMonthlyTarget(docs, year, month) ==
  LET found == SelectSeq(docs, LAMBDA d : d.year = year /\ d.month = month)
  IN IF found = <<>> THEN NoResult ELSE Head(found)

\* updateMonthlyTarget
updateMonthlyTarget(docs, id, updates) ==
  [i \in 1..Len(docs) |-> IF docs[i].id = id THEN MergeFields(docs[i], updates) ELSE docs[i]]

\* the completion test with the three conditions joined by "or"
TargetsMetAny(s, target) ==
  \/ s.totalPnL >= target.pnlTarget
  \/ s.totalTrades >= target.tradesTarget
  \/ RatGeq(s.winRate, target.winRateTarget)

\* updateMonthlyTargetProgress l.187-190
TargetsMet(s, target) ==
  /\ s.totalPnL >= target.pnlTarget
  /\ s.totalTrades >= target.tradesTarget
  /\ RatGeq(s.winRate, target.winRateTarget)

\* updateMonthlyTargetProgress l.180-183: the trades of the month
MonthTrades(list, month) ==
  filterTradesByDateRange(list, LocalMidnightISODate(FirstDayOf(month)),
                                LocalMidnightISODate(LastDayOf(month)))

\* the updates that carry a completion date whenever the targets are met
ProgressUpdatesAlwaysStamped(target, list, month, now) ==
  LET s == calculateTradeStats(MonthTrades(list, month))
      isCompleted == TargetsMet(s, target)
  IN IF isCompleted
     THEN [ currentPnL |-> s.totalPnL, currentTrades |-> s.totalTrades,
            currentWinRate |-> s.winRate, isCompleted |-> isCompleted,
            completedAt |-> now ]
     ELSE [ currentPnL |-> s.totalPnL, currentTrades |-> s.totalTrades,
            currentWinRate |-> s.winRate, isCompleted |-> isCompleted ]

\* the updates that never carry a completion date
ProgressUpdatesNeverStamped(target, list, month, now) ==
  LET s == calculateTradeStats(MonthTrades(list, month))
  IN [ currentPnL |-> s.totalPnL, currentTrades |-> s.totalTrades,
       currentWinRate |-> s.winRate, isCompleted |-> TargetsMet(s, target) ]

\* updateMonthlyTargetProgress l.184-202: the updates for the target read;
\* now is what new Date() gives
ProgressUpdates(target, list, month, now) ==
  LET s == calculateTradeStats(MonthTrades(list, month))
      isCompleted == TargetsMet(s, target)
      updates == [ currentPnL |-> s.totalPnL, currentTrades |-> s.totalTrades,
                   currentWinRate |-> s.winRate, isCompleted |-> isCompleted ]
  IN IF isCompleted /\ ~target.isCompleted
     THEN [ currentPnL |-> s.totalPnL, currentTrades |-> s.totalTrades,
            currentWinRate |-> s.winRate, isCompleted |-> isCompleted,
            completedAt |-> now ]
     ELSE updates

\* getYearTargetsSummary: the targets of the year by month ascending; the
\* model keeps their ids, their number and the number of completed ones
getYearTargetsSummary(docs, year) ==
  LET ofYear == SelectSeq(docs, LAMBDA d : d.year = year)
      targets == OrderBy(ofYear, [i \in 1..Len(ofYear) |-> ofYear[i].month])
  IN [ year |-> year,
       targets |-> [i \in 1..Len(targets) |-> targets[i].id],
       completedTargets |-> Cardinality({i \in 1..Len(targets) : targets[i].isCompleted}),
       totalTargets |-> Len(targets) ]

\* ---------------------------------------------- monthly targets: component
\* a call in flight: the function that started it (load: loadTargetsData,
\* progress: updateProgress, submit: handleSubmit), the await it is at,
\* whether the component that started it is still mounted, and its locals
\* (year and month of the query, the trades and selectedYear of its render,
\* the id, the target read and the updates of its write)
IdleCall ==
  [ kind |-> "load", pc |-> "gmtRead", live |-> TRUE, year |-> 0, month |-> 0,
    list |-> <<>>, selectedYear |-> 0, id |-> 0, target |-> NoResult,
    updates |-> NoResult ]

\* loadTargetsData up to the query of getCurrentMonthTarget (l.67-72, l.142-144)
LoadCall(kind, month, year) ==
  [IdleCall EXCEPT !.kind = kind, !.pc = "gmtRead", !.year = ThisYear,
                   !.month = month, !.selectedYear = year]

\* updateProgress up to the query of updateMonthlyTargetProgress (l.90-99, l.176)
ProgressCall(target, list) ==
  [IdleCall EXCEPT !.kind = "progress", !.pc = "upRead", !.year = target.year,
                   !.month = target.month, !.list = list]

\* the effect on [trades, currentTarget] (l.61-65), run with the values of
\* the new render
ProgressEffect(queue, target, list) ==
  IF target # NoResult /\ Len(list) > 0 /\ Len(queue) < MaxTargetCalls
  THEN Append(queue, ProgressCall(target, list))
  ELSE queue

\* two updateMonthlyTargetProgress calls are running at the same time
Overlapping(queue) ==
  \E i, j \in 1..Len(queue) :
    /\ i # j
    /\ queue[i].pc \in {"upRead", "upWrite"}
    /\ queue[j].pc \in {"upRead", "upWrite"}

EmptyForm == [pnlTarget |-> "", tradesTarget |-> "", winRateTarget |-> ""]

\* the texts typed into the target form
FormTargetTexts ==
  { [pnlTarget |-> "50", tradesTarget |-> "1", winRateTarget |-> "60"],
    [pnlTarget |-> "100", tradesTarget |-> "2", winRateTarget |-> "50"] }

\* the trades the parent may hold, as getUserTrades orders them (date
\* descending): a loser on the last day of the month, a winner on its first
TradePool ==
  << StatTrade(LastDayOf(ThisMonth), JournalSymbol, -50),
     StatTrade(FirstDayOf(ThisMonth), JournalSymbol, 100) >>

\* the lists the parent can hand over
TradeLists == {SelectSeq(TradePool, LAMBDA t : t \in kept) : kept \in SUBSET Range(TradePool)}

\* the lists one added or deleted trade away
NextTradeLists(list) ==
  {next \in TradeLists :
     \/ Range(list) \subseteq Range(next) /\ Len(next) = Len(list) + 1
     \/ Range(next) \subseteq Range(list) /\ Len(next) = Len(list) - 1}

\* what the collection holds when the session starts: nothing, or the target
\* of the first month as an earlier session created and edited it
TargetsAtStart ==
  { <<>>,
    createMonthlyTarget(<<>>, 1, TargetData(ThisYear, 1, 50, 1, 60), 1) }

\* the component after its first render, loadTargetsData of the mount effect
\* (l.56-58) at its first await
TargetsInit ==
  /\ eastOfUTC \in BOOLEAN
  /\ clockTime = 0
  /\ targetsDb \in TargetsAtStart
  /\ targetTrades \in TradeLists
  /\ currentTarget = NoResult
  /\ allTargets = <<>>
  /\ yearSummary = NoResult
  /\ showEditForm = FALSE
  /\ showCreateForm = FALSE
  /\ loading = TRUE
  /\ selectedYear = ThisYear
  /\ targetForm = EmptyForm
  /\ targetCalls = <<LoadCall("load", ThisMonth, ThisYear)>>
  /\ targetOps = 0
  /\ interfered = FALSE

\* the parent reloads its trades and renders the component with the new list
TradesChanged ==
  /\ targetOps < MaxTargetOps
  /\ targetOps' = targetOps + 1
  /\ Len(targetCalls) < MaxTargetCalls
  /\ \E list \in NextTradeLists(targetTrades) :
       /\ targetTrades' = list
       /\ targetCalls' = ProgressEffect(targetCalls, currentTarget, list)
  /\ interfered' = (interfered \/ Overlapping(targetCalls'))
  /\ UNCHANGED <<eastOfUTC, clockTime, targetsDb, currentTarget, targetViews, targetForms>>
  /\ UNCHANGED otherThanTargets

\* the user leaves the targets tab and opens it again (SimpleTradingJournal
\* l.976): a new component is mounted, with the trades the parent holds by
\* then; the calls of the old one go on, their setState has no effect
Remount ==
  /\ targetOps < MaxTargetOps
  /\ targetOps' = targetOps + 1
  /\ Len(targetCalls) < MaxTargetCalls
  /\ targetTrades' \in NextTradeLists(targetTrades) \cup {targetTrades}
  /\ currentTarget' = NoResult
  /\ allTargets' = <<>>
  /\ yearSummary' = NoResult
  /\ showEditForm' = FALSE
  /\ showCreateForm' = FALSE
  /\ loading' = TRUE
  /\ selectedYear' = ThisYear
  /\ targetForm' = EmptyForm
  /\ targetCalls' = Append([i \in 1..Len(targetCalls) |-> [targetCalls[i] EXCEPT !.live = FALSE]],
                           LoadCall("load", ThisMonth, ThisYear))
  /\ UNCHANGED <<eastOfUTC, clockTime, targetsDb, interfered>>
  /\ UNCHANGED otherThanTargets

\* onChange of the year selector (l.411) and the effect on [userId, selectedYear]
SelectYear ==
  /\ targetOps < MaxTargetOps
  /\ targetOps' = targetOps + 1
  /\ ~loading
  /\ yearSummary # NoResult
  /\ Len(targetCalls) < MaxTargetCalls
  /\ \E y \in Years \ {selectedYear} :
       /\ selectedYear' = y
       /\ targetCalls' = Append(targetCalls, LoadCall("load", ThisMonth, y))
  /\ loading' = TRUE
  /\ UNCHANGED <<eastOfUTC, clockTime, targetsDb, targetTrades, currentTarget, allTargets,
                 yearSummary, targetForms, interfered>>
  /\ UNCHANGED otherThanTargets

\* handleEdit (MonthlyTargets)
TargetsHandleEdit ==
  /\ ~loading
  /\ currentTarget # NoResult
  /\ targetForm' = [ pnlTarget |-> NumberText(currentTarget.pnlTarget),
                     tradesTarget |-> NumberText(currentTarget.tradesTarget),
                     winRateTarget |-> NumberText(currentTarget.winRateTarget) ]
  /\ showEditForm' = TRUE
  /\ UNCHANGED <<eastOfUTC, clockTime, targetsDb, targetTrades, currentTarget, targetViews,
                 showCreateForm, targetCalls, interfered>>
  /\ UNCHANGED <<targetOps, otherThanTargets>>

\* onChange of the inputs of the form
SetTargetForm ==
  /\ ~loading
  /\ (showEditForm \/ showCreateForm)
  /\ targetForm' \in FormTargetTexts \ {targetForm}
  /\ UNCHANGED <<eastOfUTC, clockTime, targetsDb, targetTrades, currentTarget, targetViews,
                 showEditForm, showCreateForm, targetCalls, interfered>>
  /\ UNCHANGED <<targetOps, otherThanTargets>>

\* resetForm, from the buttons of the form
TargetsResetForm ==
  /\ ~loading
  /\ (showEditForm \/ showCreateForm)
  /\ targetForm' = EmptyForm
  /\ showEditForm' = FALSE
  /\ showCreateForm' = FALSE
  /\ UNCHANGED <<eastOfUTC, clockTime, targetsDb, targetTrades, currentTarget, targetViews,
                 targetCalls, interfered>>
  /\ UNCHANGED <<targetOps, otherThanTargets>>

\* handleSubmit (MonthlyTargets) up to its write; the inputs are required
TargetsHandleSubmit ==
  /\ targetOps < MaxTargetOps
  /\ targetOps' = targetOps + 1
  /\ ~loading
  /\ (showEditForm \/ showCreateForm)
  /\ targetForm.pnlTarget # "" /\ targetForm.tradesTarget # "" /\ targetForm.winRateTarget # ""
  /\ Len(targetCalls) < MaxTargetCalls
  /\ LET targetData == TargetData(ThisYear, ThisMonth,
                                  parseFloat(targetForm.pnlTarget, 1).val,
                                  parseInt(targetForm.tradesTarget).val,
                                  parseFloat(targetForm.winRateTarget, 1).val)
         edit == showEditForm /\ currentTarget # NoResult
     IN targetCalls' = Append(targetCalls,
          [IdleCall EXCEPT !.kind = "submit", !.pc = "submitWrite",
                           !.selectedYear = selectedYear,
                           !.id = IF edit THEN currentTarget.id ELSE 0,
                           !.updates = targetData])
  /\ UNCHANGED <<eastOfUTC, clockTime, targetsDb, targetTrades, currentTarget, targetViews,
                 targetForms, interfered>>
  /\ UNCHANGED otherThanTargets

\* handleSubmit: updateMonthlyTarget or createMonthlyTarget is done, and
\* loadTargetsData runs up to its first await
SubmitWriteDone(i) ==
  /\ i \in 1..Len(targetCalls)
  /\ targetCalls[i].pc = "submitWrite"
  /\ LET c == targetCalls[i]
     IN /\ \E p \in 1..(Len(targetsDb) + 1) :
             targetsDb' = IF c.id # 0
                          THEN updateMonthlyTarget(targetsDb, c.id, c.updates)
                          ELSE createMonthlyTarget(targetsDb, Len(targetsDb) + 1, c.updates, p)
        /\ c.id = 0 => Len(targetsDb) < MaxTargets
        /\ loading' = IF c.live THEN TRUE ELSE loading
        /\ targetCalls' = ReplaceAt(targetCalls, i,
             [c EXCEPT !.pc = "gmtRead", !.year = ThisYear, !.month = ThisMonth,
                       !.id = 0, !.updates = NoResult])
  /\ interfered' = TRUE
  /\ UNCHANGED <<eastOfUTC, clockTime, targetTrades, currentTarget, allTargets, yearSummary,
                 selectedYear, targetForms>>
  /\ UNCHANGED <<targetOps, otherThanTargets>>

\* updateMonthlyTargetProgress: getMonthlyTarget is done; without a target
\* the function returns and updateProgress goes on to getCurrentMonthTarget,
\* with one it computes the updates and starts the write
ProgressRead(i) ==
  /\ i \in 1..Len(targetCalls)
  /\ targetCalls[i].pc = "upRead"
  /\ LET c == targetCalls[i]
         target == getMonthlyTarget(targetsDb, c.year, c.month)
         updates == ProgressUpdates(target, c.list, c.month, clockTime + 1)
     IN IF target = NoResult
        THEN /\ targetCalls' = ReplaceAt(targetCalls, i,
                  [c EXCEPT !.pc = "gmtRead", !.year = ThisYear, !.month = ThisMonth,
                            !.list = <<>>])
             /\ clockTime' = clockTime
        ELSE /\ "completedAt" \in DOMAIN updates => clockTime < MaxStamps
             /\ clockTime' = IF "completedAt" \in DOMAIN updates
                             THEN clockTime + 1 ELSE clockTime
             /\ targetCalls' = ReplaceAt(targetCalls, i,
                  [c EXCEPT !.pc = "upWrite", !.list = <<>>, !.target = target,
                            !.updates = updates])
  /\ interfered' = (interfered \/ Overlapping(targetCalls'))
  /\ UNCHANGED <<eastOfUTC, targetsDb, targetTrades, currentTarget, targetViews, targetForms>>
  /\ UNCHANGED <<targetOps, otherThanTargets>>

\* updateMonthlyTargetProgress: updateMonthlyTarget is done; updateProgress
\* goes on to getCurrentMonthTarget
ProgressWrite(i) ==
  /\ i \in 1..Len(targetCalls)
  /\ targetCalls[i].pc = "upWrite"
  /\ LET c == targetCalls[i]
     IN /\ targetsDb' = updateMonthlyTarget(targetsDb, c.target.id, c.updates)
        /\ targetCalls' = ReplaceAt(targetCalls, i,
             [c EXCEPT !.pc = "gmtRead", !.year = ThisYear, !.month = ThisMonth,
                       !.target = NoResult, !.updates = NoResult])
  /\ UNCHANGED <<eastOfUTC, clockTime, targetTrades, currentTarget, targetViews, targetForms,
                 interfered>>
  /\ UNCHANGED <<targetOps, otherThanTargets>>

\* getCurrentMonthTarget returns target to call i: updateProgress sets
\* currentTarget and ends, loadTargetsData sets it and goes on to
\* getUserMonthlyTargets; the new currentTarget runs the progress effect
ReturnCurrentMonthTarget(i, target) ==
  LET c == targetCalls[i]
      rest == IF c.kind = "progress"
              THEN RemoveAt(targetCalls, i)
              ELSE ReplaceAt(targetCalls, i,
                     [c EXCEPT !.pc = "loadAll", !.year = 0, !.month = 0, !.id = 0])
  IN /\ currentTarget' = IF c.live THEN target ELSE currentTarget
     /\ targetCalls' = IF c.live THEN ProgressEffect(rest, target, targetTrades) ELSE rest
     /\ interfered' = (interfered \/ Overlapping(targetCalls'))

\* getCurrentMonthTarget: getMonthlyTarget is done; without a target
\* createMonthlyTarget starts
CurrentMonthRead(i) ==
  /\ i \in 1..Len(targetCalls)
  /\ targetCalls[i].pc = "gmtRead"
  /\ LET c == targetCalls[i]
         target == getMonthlyTarget(targetsDb, c.year, c.month)
     IN IF target # NoResult
        THEN ReturnCurrentMonthTarget(i, target)
        ELSE /\ targetCalls' = ReplaceAt(targetCalls, i, [c EXCEPT !.pc = "gmtCreate"])
             /\ UNCHANGED <<currentTarget, interfered>>
  /\ UNCHANGED <<eastOfUTC, clockTime, targetsDb, targetTrades, targetViews, targetForms>>
  /\ UNCHANGED <<targetOps, otherThanTargets>>

\* getCurrentMonthTarget: createMonthlyTarget of the default target is done
CurrentMonthCreate(i) ==
  /\ i \in 1..Len(targetCalls)
  /\ targetCalls[i].pc = "gmtCreate"
  /\ Len(targetsDb) < MaxTargets
  /\ LET c == targetCalls[i]
         id == Len(targetsDb) + 1
     IN /\ \E p \in 1..(Len(targetsDb) + 1) :
             targetsDb' = createMonthlyTarget(targetsDb, id,
                            TargetData(c.year, c.month, 1000, 20, 60), p)
        /\ targetCalls' = ReplaceAt(targetCalls, i, [c EXCEPT !.pc = "gmtGetById", !.id = id])
  /\ UNCHANGED <<eastOfUTC, clockTime, targetTrades, currentTarget, targetViews, targetForms,
                 interfered>>
  /\ UNCHANGED <<targetOps, otherThanTargets>>

\* getCurrentMonthTarget: getMonthlyTargetById of the new target is done
CurrentMonthGetById(i) ==
  /\ i \in 1..Len(targetCalls)
  /\ targetCalls[i].pc = "gmtGetById"
  /\ ReturnCurrentMonthTarget(i, getMonthlyTargetById(targetsDb, targetCalls[i].id))
  /\ UNCHANGED <<eastOfUTC, clockTime, targetsDb, targetTrades, targetViews, targetForms>>
  /\ UNCHANGED <<targetOps, otherThanTargets>>

\* loadTargetsData: getUserMonthlyTargets is done
LoadAllDone(i) ==
  /\ i \in 1..Len(targetCalls)
  /\ targetCalls[i].pc = "loadAll"
  /\ allTargets' = IF targetCalls[i].live THEN getUserMonthlyTargets(targetsDb) ELSE allTargets
  /\ targetCalls' = ReplaceAt(targetCalls, i, [targetCalls[i] EXCEPT !.pc = "loadYear"])
  /\ UNCHANGED <<eastOfUTC, clockTime, targetsDb, targetTrades, currentTarget, yearSummary,
                 loading, selectedYear, targetForms, interfered>>
  /\ UNCHANGED <<targetOps, otherThanTargets>>

\* loadTargetsData: getYearTargetsSummary is done and the function ends;
\* handleSubmit then runs resetForm
LoadYearDone(i) ==
  /\ i \in 1..Len(targetCalls)
  /\ targetCalls[i].pc = "loadYear"
  /\ LET c == targetCalls[i]
     IN /\ yearSummary' = IF c.live THEN getYearTargetsSummary(targetsDb, c.selectedYear)
                          ELSE yearSummary
        /\ loading' = IF c.live THEN FALSE ELSE loading
        /\ IF c.live /\ c.kind = "submit"
           THEN /\ targetForm' = EmptyForm
                /\ showEditForm' = FALSE
                /\ showCreateForm' = FALSE
           ELSE UNCHANGED targetForms
  /\ targetCalls' = RemoveAt(targetCalls, i)
  /\ UNCHANGED <<eastOfUTC, clockTime, targetsDb, targetTrades, currentTarget, allTargets,
                 selectedYear, interfered>>
  /\ UNCHANGED <<targetOps, otherThanTargets>>

TargetsNext ==
  \/ TradesChanged
  \/ Remount
  \/ SelectYear
  \/ TargetsHandleEdit
  \/ SetTargetForm
  \/ TargetsResetForm
  \/ TargetsHandleSubmit
  \/ \E i \in 1..MaxTargetCalls : SubmitWriteDone(i)
  \/ \E i \in 1..MaxTargetCalls : ProgressRead(i)
  \/ \E i \in 1..MaxTargetCalls : ProgressWrite(i)
  \/ \E i \in 1..MaxTargetCalls : CurrentMonthRead(i)
  \/ \E i \in 1..MaxTargetCalls : CurrentMonthCreate(i)
  \/ \E i \in 1..MaxTargetCalls : CurrentMonthGetById(i)
  \/ \E i \in 1..MaxTargetCalls : LoadAllDone(i)
  \/ \E i \in 1..MaxTargetCalls : LoadYearDone(i)

\* ------------------------------------------------- monthly targets: claims
\* call i, and no other call, did a step, which was the write of
\* updateMonthlyTargetProgress
ProgressWritten(i) ==
  /\ i \in 1..Len(targetCalls)
  /\ Len(targetCalls') = Len(targetCalls)
  /\ \A k \in 1..Len(targetCalls) : k # i => targetCalls'[k] = targetCalls[k]
  /\ targetCalls[i].pc = "upWrite"
  /\ targetCalls'[i].pc = "gmtRead"

\* the three progress values of doc meet the three targets of target
AllThreeMet(doc, target) ==
  /\ doc.currentPnL >= target.pnlTarget
  /\ doc.currentTrades >= target.tradesTarget
  /\ doc.currentWinRate.num >= target.winRateTarget * doc.currentWinRate.den

\* the number of progress values of doc that meet their target
MetCount(doc) ==
  (IF doc.currentPnL >= doc.pnlTarget THEN 1 ELSE 0)
  + (IF doc.currentTrades >= doc.tradesTarget THEN 1 ELSE 0)
  + (IF doc.currentWinRate.num >= doc.winRateTarget * doc.currentWinRate.den THEN 1 ELSE 0)

\* C1: after every write of updateMonthlyTargetProgress to an existing
\* target the stored isCompleted is true if and only if the stored
\* currentPnL, currentTrades and currentWinRate all meet the targets the call
\* compared them with (those of the target it read), which are the targets
\* of the stored record as long as no form write has landed in between; with
\* one or two of the three met the target is stored as not completed.
TheoremC1 ==
  [][ \A i \in 1..MaxTargetCalls :
        ProgressWritten(i) =>
          LET stored == getMonthlyTargetById(targetsDb', targetCalls[i].target.id)
          IN /\ stored.isCompleted <=> AllThreeMet(stored, targetCalls[i].target)
             /\ ~interfered' => (stored.isCompleted <=> MetCount(stored) = 3)
             /\ (~interfered' /\ MetCount(stored) \in {1, 2}) => ~stored.isCompleted ]_vars

\* a recomputation has stored a target with two of the three met, not completed
WitnessC1 ==
  /\ ~interfered
  /\ \E i \in 1..Len(targetsDb) :
       /\ targetsDb[i].currentTrades > 0
       /\ MetCount(targetsDb[i]) = 2
       /\ ~targetsDb[i].isCompleted

\* C2: over a sequence of updateMonthlyTargetProgress calls on one target
\* that do not overlap, with trades added or deleted between them and no form
\* write, a completedAt once set is never replaced (or cleared) by a later
\* recomputation.
ClaimC2 ==
  [][ ~interfered' =>
        \A i \in 1..Len(targetsDb), j \in 1..Len(targetsDb') :
          (targetsDb[i].id = targetsDb'[j].id /\ targetsDb[i].completedAt # 0)
            => targetsDb'[j].completedAt = targetsDb[i].completedAt ]_vars

\* C3: at most one MonthlyTarget record exists for each (year, month) of the
\* user, in every state reachable by interleavings of the calls.
ClaimC3 ==
  \A i, j \in 1..Len(targetsDb) :
    i # j => <<targetsDb[i].year, targetsDb[i].month>> # <<targetsDb[j].year, targetsDb[j].month>>

\* ------------------------------------------- historical analytics: functions
\* the list left in the order it was given
KeepInputOrder(list) == list

RECURSIVE InsertDateAsc(_, _)
\* the place of t in a list sorted by date ascending, after the trades of its date
InsertDateAsc(sorted, t) ==
  IF sorted = <<>> THEN <<t>>
  ELSE IF Head(sorted).date <= t.date
       THEN <<Head(sorted)>> \o InsertDateAsc(Tail(sorted), t)
       ELSE <<t>> \o sorted

RECURSIVE SortAsc(_)
SortAsc(list) ==
  IF list = <<>> THEN <<>>
  ELSE InsertDateAsc(SortAsc(SubSeq(list, 1, Len(list) - 1)), list[Len(list)])

\* [...trades].sort((a, b) => new Date(a.date) - new Date(b.date)): stable
SortByDateAsc(list) == SortAsc(list)

RECURSIVE DrawdownFold(_, _, _, _)
\* the loop of calculateMaxDrawdown over the trades left, from the peak, the
\* running total and the largest drawdown so far
DrawdownFold(rest, peak, runningTotal, maxDrawdown) ==
  IF rest = <<>> THEN maxDrawdown
  ELSE LET total == runningTotal + Head(rest).netPL
           newPeak == IF total > peak THEN total ELSE peak
           drawdown == newPeak - total
       IN DrawdownFold(Tail(rest), newPeak, total,
                       IF drawdown > maxDrawdown THEN drawdown ELSE maxDrawdown)

\* the drawdown measured from the total after the first trade onwards
MaxDrawdownFromFirstTrade(list) ==
  IF list = <<>> THEN 0
  ELSE LET sorted == SortByDateAsc(list)
       IN DrawdownFold(Tail(sorted), Head(sorted).netPL, Head(sorted).netPL, 0)

\* calculateMaxDrawdown(trades)
calculateMaxDrawdown(list) ==
  IF Len(list) = 0 THEN 0
  ELSE DrawdownFold(SortByDateAsc(list), 0, 0, 0)

\* symbolMap.get(symbol) || { trades: 0, pnl: 0, winningTrades: 0 }
SymbolEntry(symbolMap, symbol) ==
  IF \E i \in 1..Len(symbolMap) : symbolMap[i].symbol = symbol
  THEN LET i == CHOOSE i \in 1..Len(symbolMap) : symbolMap[i].symbol = symbol
       IN symbolMap[i]
  ELSE [symbol |-> symbol, trades |-> 0, pnl |-> 0, winningTrades |-> 0]

\* symbolMap.set(symbol, entry): a known key keeps its place, a new key goes last
SymbolMapSet(symbolMap, entry) ==
  IF \E i \in 1..Len(symbolMap) : symbolMap[i].symbol = entry.symbol
  THEN [i \in 1..Len(symbolMap) |->
          IF symbolMap[i].symbol = entry.symbol THEN entry ELSE symbolMap[i]]
  ELSE Append(symbolMap, entry)

RECURSIVE SymbolMapOf(_)
\* trades.forEach(trade => symbolMap.set(...)): the entries in insertion order
SymbolMapOf(list) ==
  IF list = <<>> THEN <<>>
  ELSE LET symbolMap == SymbolMapOf(SubSeq(list, 1, Len(list) - 1))
           trade == list[Len(list)]
           existing == SymbolEntry(symbolMap, trade.symbol)
       IN SymbolMapSet(symbolMap,
            [symbol        |-> trade.symbol,
             trades        |-> existing.trades + 1,
             pnl           |-> existing.pnl + trade.netPL,
             winningTrades |-> existing.winningTrades + (IF trade.netPL > 0 THEN 1 ELSE 0)])

RECURSIVE InsertPnlDescTiesFirst(_, _)
\* the place of e before the entries of its pnl
InsertPnlDescTiesFirst(sorted, e) ==
  IF sorted = <<>> THEN <<e>>
  ELSE IF Head(sorted).pnl > e.pnl
       THEN <<Head(sorted)>> \o InsertPnlDescTiesFirst(Tail(sorted), e)
       ELSE <<e>> \o sorted

RECURSIVE InsertPnlDesc(_, _)
\* the place of e in a list sorted by pnl descending, after the entries of its pnl
InsertPnlDesc(sorted, e) ==
  IF sorted = <<>> THEN <<e>>
  ELSE IF Head(sorted).pnl >= e.pnl
       THEN <<Head(sorted)>> \o InsertPnlDesc(Tail(sorted), e)
       ELSE <<e>> \o sorted

RECURSIVE SortByPnlDesc(_)
\* .sort((a, b) => b.pnl - a.pnl): stable
SortByPnlDesc(entries) ==
  IF entries = <<>> THEN <<>>
  ELSE InsertPnlDesc(SortByPnlDesc(SubSeq(entries, 1, Len(entries) - 1)),
                     entries[Len(entries)])

\* calculateSymbolPerformance(trades)
calculateSymbolPerformance(list) ==
  LET symbolMap == SymbolMapOf(list)
  IN SortByPnlDesc([i \in 1..Len(symbolMap) |->
       [symbol  |-> symbolMap[i].symbol,
        trades  |-> symbolMap[i].trades,
        pnl     |-> symbolMap[i].pnl,
        winRate |-> WinRateOf(symbolMap[i].winningTrades, symbolMap[i].trades)]])

\* the model calendar: a year holds MonthsPerYear months of DaysPerMonth days,
\* day 1 is the first of January of ThisYear, day 0 the last of December before
MonthsPerYear == 12
DaysPerYear == MonthsPerYear * DaysPerMonth
YearOfDay(day) == ThisYear + ((day - 1) \div DaysPerYear)
MonthOfDay(day) == (((day - 1) % DaysPerYear) \div DaysPerMonth) + 1

\* the local calendar day of new Date('YYYY-MM-DD'), which is the UTC midnight
\* of the date: the day before in a zone west of UTC
LocalDayOf(date) == IF westOfUTC THEN date - 1 ELSE date
\* new Date(date).getFullYear() and new Date(date).getMonth() + 1
getFullYear(date) == YearOfDay(LocalDayOf(date))
getMonth(date) == MonthOfDay(LocalDayOf(date))

\* getMonthKey(year, month): the text year-month, one per pair
getMonthKey(year, month) == <<year, month>>

\* getMonthName(month)
getMonthName(month) ==
  IF month \in 1..12
  THEN << "January", "February", "March", "April", "May", "June", "July",
          "August", "September", "October", "November", "December" >>[month]
  ELSE "Unknown"

\* groupTradesByMonth(trades).get(key) || []
MonthGroup(list, key) ==
  SelectSeq(list, LAMBDA t : getMonthKey(getFullYear(t.date), getMonth(t.date)) = key)

\* the consistency that counts a day without loss as profitable
ConsistencyWithBreakEvenDays(list) ==
  LET uniqueDates == {list[i].date : i \in 1..Len(list)}
      tradingDays == Cardinality(uniqueDates)
      dayPnL(d) == SumSeq(NetPLs(SelectSeq(list, LAMBDA t : t.date = d)))
  IN [ tradingDays         |-> tradingDays,
       averageTradesPerDay |-> IF tradingDays > 0 THEN Rat(Len(list), tradingDays) ELSE RatZero,
       profitableDays      |-> Cardinality({d \in uniqueDates : dayPnL(d) >= 0}) ]

\* calculateTradingConsistency(trades)
calculateTradingConsistency(list) ==
  LET uniqueDates == {list[i].date : i \in 1..Len(list)}
      tradingDays == Cardinality(uniqueDates)
      dayPnL(d) == SumSeq(NetPLs(SelectSeq(list, LAMBDA t : t.date = d)))
  IN [ tradingDays         |-> tradingDays,
       averageTradesPerDay |-> IF tradingDays > 0 THEN Rat(Len(list), tradingDays) ELSE RatZero,
       profitableDays      |-> Cardinality({d \in uniqueDates : dayPnL(d) > 0}) ]

\* symbolPerformance.slice(0, 10)
TopSymbolsKept == 10
TopSymbols(performance) ==
  SubSeq(performance, 1, IF Len(performance) < TopSymbolsKept THEN Len(performance)
                         ELSE TopSymbolsKept)

\* the monthlyBreakdown of generateHistoricalAnalytics; NoResult for undefined
MonthlyBreakdown(filteredTrades, timeframe, startDate) ==
  IF timeframe = "yearly"
  THEN [month \in 1..MonthsPerYear |->
          LET year == getFullYear(startDate)
              monthStats == calculateTradeStats(
                              MonthGroup(filteredTrades, getMonthKey(year, month)))
          IN [ month     |-> month,
               monthName |-> getMonthName(month),
               trades    |-> monthStats.totalTrades,
               pnl       |-> monthStats.totalPnL,
               winRate   |-> monthStats.winRate ]]
  ELSE NoResult

\* generateHistoricalAnalytics(userId, trades, timeframe, dateRange)
generateHistoricalAnalytics(list, timeframe, startDate, endDate) ==
  LET filteredTrades == filterTradesByDateRange(list, startDate, endDate)
  IN [ timeframe        |-> timeframe,
       startDate        |-> startDate,
       endDate          |-> endDate,
       basicStats       |-> calculateTradeStats(filteredTrades),
       maxDrawdown      |-> calculateMaxDrawdown(filteredTrades),
       consistency      |-> calculateTradingConsistency(filteredTrades),
       topSymbols       |-> TopSymbols(calculateSymbolPerformance(filteredTrades)),
       monthlyBreakdown |-> MonthlyBreakdown(filteredTrades, timeframe, startDate) ]

\* groupTradesByMonth(trades): the groups by month key, each in list order
groupTradesByMonth(list) ==
  [ key \in {getMonthKey(getFullYear(list[i].date), getMonth(list[i].date)) :
               i \in 1..Len(list)} |-> MonthGroup(list, key) ]

\* ------------------------------ historical analytics: the list after a call
\* trades.sort(...): sort orders the array it is called on and returns it
SortInPlace(list) == [trades |-> SortByDateAsc(list), sortedTrades |-> SortByDateAsc(list)]

\* [...trades].sort(...): the spread makes a new array and sort orders that one
SortOfCopy(list) == [trades |-> list, sortedTrades |-> SortByDateAsc(list)]

\* the array a function was given, as it is after the call. Only
\* calculateMaxDrawdown calls a method that writes to an array of trades, the
\* sort; filter, map, reduce and forEach read the list, the push of
\* groupTradesByMonth and the sort of calculateSymbolPerformance act on arrays
\* made in the call, and no function assigns to a field of a trade.
TradesAfter(fn, list) ==
  CASE fn = "calculateMaxDrawdown" ->
         IF Len(list) = 0 THEN list ELSE SortOfCopy(list).trades
    [] fn \in { "filterTradesByDateRange", "calculateTradeStats",
                "calculateSymbolPerformance", "calculateTradingConsistency",
                "groupTradesByMonth", "calculateDailyStats" } -> list

\* the trades argument after generateHistoricalAnalytics: the functions after
\* the filter are given filteredTrades, the array the filter made
TradesAfterAnalytics(list) == TradesAfter("filterTradesByDateRange", list)

\* filteredTrades after the calls of generateHistoricalAnalytics on it
FilteredAfterAnalytics(list, timeframe, startDate, endDate) ==
  LET filteredTrades == filterTradesByDateRange(list, startDate, endDate)
      afterStats == TradesAfter("calculateTradeStats", filteredTrades)
      afterSymbols == TradesAfter("calculateSymbolPerformance", afterStats)
      afterDrawdown == TradesAfter("calculateMaxDrawdown", afterSymbols)
      afterConsistency == TradesAfter("calculateTradingConsistency", afterDrawdown)
  IN IF timeframe = "yearly" THEN TradesAfter("groupTradesByMonth", afterConsistency)
     ELSE afterConsistency

\* --------------------------------------------- historical analytics: actions
\* the dates of the trades handed over: the last day of the year before, the
\* first and the last day of January, the first day of February
HistDays == {FirstDayOf(1) - 1, FirstDayOf(1), LastDayOf(1), FirstDayOf(2)}

\* the value a function returned
Returned(fn, args, value) == [fn |-> fn, args |-> args, value |-> value]
NoArgs == <<>>

HistInit ==
  /\ westOfUTC \in BOOLEAN
  /\ histTrades = <<>>
  /\ histResult = NoResult

\* the caller hands over a list one trade longer
HistInput ==
  /\ Len(histTrades) < MaxLen
  /\ \E d \in HistDays, s \in Symbols, n \in StatNetPLs :
       histTrades' = Append(histTrades, StatTrade(d, s, n))
  /\ histResult' = NoResult
  /\ UNCHANGED westOfUTC
  /\ UNCHANGED otherThanHist

\* calculateMaxDrawdown(trades)
MaxDrawdownCompute ==
  /\ histResult = NoResult
  /\ histResult' = Returned("calculateMaxDrawdown", NoArgs, calculateMaxDrawdown(histTrades))
  /\ histTrades' = TradesAfter("calculateMaxDrawdown", histTrades)
  /\ UNCHANGED westOfUTC
  /\ UNCHANGED otherThanHist

\* calculateDailyStats(allTrades) of the journal, on the first day of February
DailyStatsCompute ==
  /\ histResult = NoResult
  /\ \E day \in {FirstDayOf(2)} :
       histResult' = Returned("calculateDailyStats", <<day>>,
                              calculateDailyStats(histTrades, day))
  /\ histTrades' = TradesAfter("calculateDailyStats", histTrades)
  /\ UNCHANGED westOfUTC
  /\ UNCHANGED otherThanHist

\* calculateSymbolPerformance(trades)
SymbolPerformanceCompute ==
  /\ histResult = NoResult
  /\ histResult' = Returned("calculateSymbolPerformance", NoArgs,
                            calculateSymbolPerformance(histTrades))
  /\ histTrades' = TradesAfter("calculateSymbolPerformance", histTrades)
  /\ UNCHANGED westOfUTC
  /\ UNCHANGED otherThanHist

\* the timeframes and the date ranges of the calls: January, January to the
\* first of February, and the last of January to the first of February
Timeframes == {"monthly", "yearly"}
DateRanges == { <<FirstDayOf(1), LastDayOf(1)>>, <<FirstDayOf(1), FirstDayOf(2)>>,
                <<LastDayOf(1), FirstDayOf(2)>> }

\* generateHistoricalAnalytics(userId, trades, timeframe, dateRange)
AnalyticsCompute ==
  /\ histResult = NoResult
  /\ \E timeframe \in Timeframes, dateRange \in DateRanges :
       histResult' = Returned("generateHistoricalAnalytics", <<timeframe, dateRange>>,
                              generateHistoricalAnalytics(histTrades, timeframe,
                                                          dateRange[1], dateRange[2]))
  /\ histTrades' = TradesAfterAnalytics(histTrades)
  /\ UNCHANGED westOfUTC
  /\ UNCHANGED otherThanHist

\* calculateTradingConsistency(trades)
ConsistencyCompute ==
  /\ histResult = NoResult
  /\ histResult' = Returned("calculateTradingConsistency", NoArgs,
                            calculateTradingConsistency(histTrades))
  /\ histTrades' = TradesAfter("calculateTradingConsistency", histTrades)
  /\ UNCHANGED westOfUTC
  /\ UNCHANGED otherThanHist

\* filterTradesByDateRange(trades, dateRange)
FilterCompute ==
  /\ histResult = NoResult
  /\ \E dateRange \in DateRanges :
       histResult' = Returned("filterTradesByDateRange", <<dateRange>>,
                              filterTradesByDateRange(histTrades, dateRange[1], dateRange[2]))
  /\ histTrades' = TradesAfter("filterTradesByDateRange", histTrades)
  /\ UNCHANGED westOfUTC
  /\ UNCHANGED otherThanHist

\* calculateTradeStats(trades)
TradeStatsCompute ==
  /\ histResult = NoResult
  /\ histResult' = Returned("calculateTradeStats", NoArgs, calculateTradeStats(histTrades))
  /\ histTrades' = TradesAfter("calculateTradeStats", histTrades)
  /\ UNCHANGED westOfUTC
  /\ UNCHANGED otherThanHist

\* groupTradesByMonth(trades)
GroupByMonthCompute ==
  /\ histResult = NoResult
  /\ histResult' = Returned("groupTradesByMonth", NoArgs, groupTradesByMonth(histTrades))
  /\ histTrades' = TradesAfter("groupTradesByMonth", histTrades)
  /\ UNCHANGED westOfUTC
  /\ UNCHANGED otherThanHist

HistNext ==
  \/ HistInput
  \/ ConsistencyCompute
  \/ MaxDrawdownCompute
  \/ DailyStatsCompute
  \/ SymbolPerformanceCompute
  \/ AnalyticsCompute
  \/ FilterCompute
  \/ TradeStatsCompute
  \/ GroupByMonthCompute

\* ---------------------------------------------- historical analytics: claims
\* the value of the function fn is there
Has(fn) == histResult # NoResult /\ histResult.fn = fn

\* the trades in ascending date order, trades of one date in input order
Chronological(list) == OrderBy(list, [i \in 1..Len(list) |-> list[i].date])

\* the running total after the first k trades of s
TotalAfter(s, k) == SumSeq(NetPLs(SubSeq(s, 1, k)))

\* the largest of the running totals after trades from..k of s
PeakAfter(s, from, k) ==
  CHOOSE p \in {TotalAfter(s, j) : j \in from..k} :
    \A j \in from..k : TotalAfter(s, j) <= p

\* the largest of peak - total after each trade of s, the peak taken over the
\* totals after trades from.. (from = 0: the total 0 before the first trade
\* counts as a peak)
LargestDrawdown(s, from) ==
  IF s = <<>> THEN 0
  ELSE LET dd(k) == PeakAfter(s, from, k) - TotalAfter(s, k)
       IN CHOOSE m \in {dd(k) : k \in 1..Len(s)} : \A k \in 1..Len(s) : dd(k) <= m

OriginalC13 ==
  (Has("calculateMaxDrawdown") /\ Len(histTrades) <= 1) => histResult.value = 0

\* C13: calculateMaxDrawdown is 0 for the empty set and for one trade that
\* does not lose; for one losing trade it is the loss, -netPL.
TheoremC13 ==
  Has("calculateMaxDrawdown") =>
    /\ Len(histTrades) = 0 => histResult.value = 0
    /\ Len(histTrades) = 1 =>
         histResult.value = (IF histTrades[1].netPL < 0 THEN - histTrades[1].netPL ELSE 0)

\* the drawdown of one losing trade
WitnessC13 ==
  /\ Has("calculateMaxDrawdown")
  /\ Len(histTrades) = 1
  /\ histTrades[1].netPL < 0
  /\ histResult.value = - histTrades[1].netPL

\* the trades most recent first, trades of one date in input order
MostRecentFirst(list) == OrderBy(list, [i \in 1..Len(list) |-> - list[i].date])

\* k trades at the start of s win and the trade after them, if any, does not
WinningPrefix(s, k) ==
  /\ k \in 0..Len(s)
  /\ \A i \in 1..k : s[i].netPL > 0
  /\ k < Len(s) => s[k + 1].netPL <= 0

\* the trades +20, -3, +5, +10 of four days, the oldest first
StreakScenario ==
  << StatTrade(1, JournalSymbol, 20), StatTrade(2, JournalSymbol, -3),
     StatTrade(3, JournalSymbol, 5), StatTrade(4, JournalSymbol, 10) >>

\* C14: the win streak is the number of trades with netPL > 0 at the start of
\* the trades ordered most recent first: it stops at the first trade with
\* netPL <= 0, a break-even trade included; it is 2 for the trades that,
\* most recent first, are +10, +5, -3, +20, and 0 for the empty set.
TheoremC14 ==
  Has("calculateDailyStats") =>
    /\ WinningPrefix(MostRecentFirst(histTrades), histResult.value.streak)
    /\ histTrades = <<>> => histResult.value.streak = 0
    /\ calculateDailyStats(StreakScenario, histResult.args[1]).streak = 2

\* a streak of one win ended by a break-even trade, the trades given out of order
WitnessC14 ==
  /\ Has("calculateDailyStats")
  /\ Len(histTrades) = 3
  /\ histTrades[1].date < histTrades[2].date
  /\ MostRecentFirst(histTrades)[1].netPL > 0
  /\ MostRecentFirst(histTrades)[2].netPL = 0
  /\ MostRecentFirst(histTrades)[3].netPL > 0
  /\ histResult.value.streak = 1

\* the trades of a symbol in a list, and the place where the symbol first occurs
TradesOfSymbol(list, symbol) == {i \in 1..Len(list) : list[i].symbol = symbol}
FirstOccurrence(list, symbol) ==
  CHOOSE i \in TradesOfSymbol(list, symbol) : \A j \in TradesOfSymbol(list, symbol) : i <= j

\* C15: calculateSymbolPerformance has exactly one entry per symbol of the
\* input, with trades the number of trades of the symbol, pnl the sum of their
\* netPL and winRate the share of them with netPL > 0 times 100; the entries
\* are in descending order of pnl, entries of equal pnl in the order in which
\* their symbols first occur in the input.
TheoremC15 ==
  Has("calculateSymbolPerformance") =>
    LET r == histResult.value
        of(symbol) == TradesOfSymbol(histTrades, symbol)
    IN /\ {r[i].symbol : i \in 1..Len(r)} = {histTrades[i].symbol : i \in 1..Len(histTrades)}
       /\ \A i, j \in 1..Len(r) : r[i].symbol = r[j].symbol => i = j
       /\ \A i \in 1..Len(r) :
            /\ r[i].trades = Cardinality(of(r[i].symbol))
            /\ r[i].pnl = SumSeq(NetPLs(SelectSeq(histTrades, LAMBDA t : t.symbol = r[i].symbol)))
            /\ r[i].winRate.den > 0
            /\ r[i].winRate.num * r[i].trades
                 = 100 * Cardinality({k \in of(r[i].symbol) : histTrades[k].netPL > 0})
                       * r[i].winRate.den
       /\ \A i, j \in 1..Len(r) : i < j =>
            \/ r[i].pnl > r[j].pnl
            \/ /\ r[i].pnl = r[j].pnl
               /\ FirstOccurrence(histTrades, r[i].symbol) < FirstOccurrence(histTrades, r[j].symbol)

\* two symbols of equal pnl, the one that occurs first with two trades
WitnessC15 ==
  /\ Has("calculateSymbolPerformance")
  /\ Len(histTrades) = 3
  /\ Len(histResult.value) = 2
  /\ histResult.value[1].pnl = histResult.value[2].pnl
  /\ histResult.value[1].symbol = histTrades[1].symbol
  /\ histResult.value[1].trades = 2
  /\ histResult.value[1].winRate = Rat(100, 2)

\* the trades dated on one of the days first..last, in input order
DatedWithin(list, first, last) == SelectSeq(list, LAMBDA t : \E d \in first..last : t.date = d)

\* C16: generateHistoricalAnalytics aggregates exactly the trades dated from
\* the start date to the end date, both included: its statistics, drawdown,
\* trading days and symbol ranking are those of these trades.
TheoremC16 ==
  Has("generateHistoricalAnalytics") =>
    LET r == histResult.value
        inRange == DatedWithin(histTrades, r.startDate, r.endDate)
    IN /\ r.basicStats.totalTrades = Len(inRange)
       /\ r.basicStats.totalPnL = SumSeq(NetPLs(inRange))
       /\ r.basicStats = calculateTradeStats(inRange)
       /\ r.maxDrawdown = calculateMaxDrawdown(inRange)
       /\ r.consistency.tradingDays = Cardinality({inRange[i].date : i \in 1..Len(inRange)})
       /\ r.topSymbols = calculateSymbolPerformance(inRange)

\* a report over January for trades dated on its first day, on its last day
\* and on the day after: the first two are counted, the third is not
WitnessC16 ==
  /\ Has("generateHistoricalAnalytics")
  /\ histResult.value.startDate = FirstDayOf(1)
  /\ histResult.value.endDate = LastDayOf(1)
  /\ {histTrades[i].date : i \in 1..Len(histTrades)}
       = {FirstDayOf(1), LastDayOf(1), LastDayOf(1) + 1}
  /\ histResult.value.basicStats.totalTrades = 2

\* C17: for the yearly timeframe monthlyBreakdown has 12 entries, months 1 to
\* 12 in order, entry m holding the count, the netPL sum and the win rate of
\* the filtered trades dated in month m of the year of the range start (zeros
\* for a month without trades); for another timeframe it is absent.
ClaimC17 ==
  Has("generateHistoricalAnalytics") =>
    LET r == histResult.value
        inRange == DatedWithin(histTrades, r.startDate, r.endDate)
        inMonth(m) == SelectSeq(inRange, LAMBDA t : /\ YearOfDay(t.date) = YearOfDay(r.startDate)
                                                    /\ MonthOfDay(t.date) = m)
    IN IF r.timeframe = "yearly"
       THEN /\ DOMAIN r.monthlyBreakdown = 1..12
            /\ \A m \in 1..12 :
                 /\ r.monthlyBreakdown[m].month = m
                 /\ r.monthlyBreakdown[m].trades = Len(inMonth(m))
                 /\ r.monthlyBreakdown[m].pnl = SumSeq(NetPLs(inMonth(m)))
                 /\ r.monthlyBreakdown[m].winRate = WinRateOf(CountWins(inMonth(m)), Len(inMonth(m)))
       ELSE r.monthlyBreakdown = NoResult

\* the dates of a list, and the netPL sum of one date
DatesOf(list) == {list[i].date : i \in 1..Len(list)}
DaySum(list, d) == SumSeq(NetPLs(DatedWithin(list, d, d)))

\* C23: calculateTradingConsistency returns tradingDays = the number of
\* distinct dates of the trades, averageTradesPerDay = number of trades /
\* tradingDays (0 without a trading day) and profitableDays = the number of
\* dates whose netPL sum is strictly positive; so profitableDays <=
\* tradingDays <= number of trades.
TheoremC23 ==
  Has("calculateTradingConsistency") =>
    LET r == histResult.value
    IN /\ r.tradingDays = Cardinality(DatesOf(histTrades))
       /\ r.averageTradesPerDay.den > 0
       /\ IF r.tradingDays = 0
          THEN r.averageTradesPerDay.num = 0
          ELSE r.averageTradesPerDay.num * r.tradingDays
                 = Len(histTrades) * r.averageTradesPerDay.den
       /\ r.profitableDays
            = Cardinality({d \in DatesOf(histTrades) : DaySum(histTrades, d) > 0})
       /\ r.profitableDays <= r.tradingDays
       /\ r.tradingDays <= Len(histTrades)

\* three trades on two dates, one date with two trades and a sum of 0, the
\* other with a gain: one profitable day of two, 3 / 2 trades per day
WitnessC23 ==
  /\ Has("calculateTradingConsistency")
  /\ Len(histTrades) = 3
  /\ histResult.value.tradingDays = 2
  /\ histResult.value.profitableDays = 1
  /\ histResult.value.averageTradesPerDay = Rat(3, 2)
  /\ \E d \in DatesOf(histTrades) :
       /\ Len(DatedWithin(histTrades, d, d)) = 2
       /\ DaySum(histTrades, d) = 0

\* C25: a call of generateHistoricalAnalytics or of one of the functions it
\* calls leaves the trade list it was given as it was, the same trades in the
\* same order with the same fields; in generateHistoricalAnalytics this holds
\* for the trades argument and for the filtered list handed to the functions.
TheoremC25 ==
  [][ (histResult = NoResult /\ histResult' # NoResult) =>
        /\ histTrades' = histTrades
        /\ histResult'.fn = "generateHistoricalAnalytics" =>
             LET timeframe == histResult'.args[1]
                 dateRange == histResult'.args[2]
             IN FilteredAfterAnalytics(histTrades, timeframe, dateRange[1], dateRange[2])
                  = filterTradesByDateRange(histTrades, dateRange[1], dateRange[2]) ]_vars

\* generateHistoricalAnalytics has returned the yearly report of a list that
\* is not in date order and whose trades are all in the range
WitnessC25 ==
  /\ Has("generateHistoricalAnalytics")
  /\ histResult.args[1] = "yearly"
  /\ Len(histTrades) >= 2
  /\ histTrades[1].date > histTrades[2].date
  /\ histResult.value.basicStats.totalTrades = Len(histTrades)

\* ------------------------------------- monthly targets: progress and creation
\* call i of the component has read its target and computed its updates
ProgressComputed(i) ==
  /\ i \in 1..Len(targetCalls)
  /\ Len(targetCalls') = Len(targetCalls)
  /\ \A k \in 1..Len(targetCalls) : k # i => targetCalls'[k] = targetCalls[k]
  /\ targetCalls[i].pc = "upRead"
  /\ targetCalls'[i].pc = "upWrite"

\* C18: updateMonthlyTargetProgress derives currentPnL, currentTrades and
\* currentWinRate from exactly the given trades dated from the first to the
\* last day of the month of the call, in every time zone of the client.
ClaimC18 ==
  [][ \A i \in 1..MaxTargetCalls :
        ProgressComputed(i) =>
          LET c == targetCalls[i]
              inMonth == DatedWithin(c.list, FirstDayOf(c.month), LastDayOf(c.month))
              updates == targetCalls'[i].updates
          IN /\ updates.currentPnL = SumSeq(NetPLs(inMonth))
             /\ updates.currentTrades = Len(inMonth)
             /\ updates.currentWinRate = WinRateOf(CountWins(inMonth), Len(inMonth)) ]_vars

\* the four values every recomputation writes
ProgressValues(updates) ==
  <<updates.currentPnL, updates.currentTrades, updates.currentWinRate, updates.isCompleted>>

\* the target with other progress values stored
WithProgress(target, pnl, count) ==
  [target EXCEPT !.currentPnL = pnl, !.currentTrades = count,
                 !.currentWinRate = WinRateOf(count, count)]

\* progress values a target may hold before a call: currentPnL, currentTrades
StoredProgress == {<<0, 0>>, <<-50, 1>>, <<100, 2>>}

\* C19: when updateMonthlyTargetProgress has computed its updates for the
\* target it read and a list, a second call with the same list on the target
\* so updated writes the same currentPnL, currentTrades, currentWinRate and
\* isCompleted and no completedAt, so that the five fields stay as the first
\* call left them; and the values computed are those computed for the same
\* target with other progress values stored.
TheoremC19 ==
  [][ \A i \in 1..MaxTargetCalls :
        ProgressComputed(i) =>
          LET c == targetCalls[i]
              target == targetCalls'[i].target
              updates == targetCalls'[i].updates
              once == MergeFields(target, updates)
              again == ProgressUpdates(once, c.list, c.month, clockTime' + 1)
          IN /\ "completedAt" \notin DOMAIN again
             /\ ProgressValues(again) = ProgressValues(updates)
             /\ \A stored \in StoredProgress :
                  ProgressValues(ProgressUpdates(WithProgress(target, stored[1], stored[2]),
                                                 c.list, c.month, clockTime' + 1))
                    = ProgressValues(updates) ]_vars

\* a call has recomputed a target that an earlier call completed: the same
\* progress values again, and no new completion date
WitnessC19 ==
  \E i \in 1..Len(targetCalls) :
    /\ targetCalls[i].pc = "upWrite"
    /\ targetCalls[i].target.isCompleted
    /\ targetCalls[i].target.completedAt # 0
    /\ targetCalls[i].target.currentTrades > 0
    /\ targetCalls[i].updates.isCompleted
    /\ targetCalls[i].updates.currentTrades = targetCalls[i].target.currentTrades
    /\ targetCalls[i].updates.currentPnL = targetCalls[i].target.currentPnL
    /\ "completedAt" \notin DOMAIN targetCalls[i].updates

\* a target starts without progress, not completed and without completion date
StartsOpen(doc) ==
  /\ doc.currentPnL = 0
  /\ doc.currentTrades = 0
  /\ RatIsZero(doc.currentWinRate)
  /\ ~doc.isCompleted
  /\ doc.completedAt = 0

\* target values the form can be given, low ones included
TargetValues == {-50, 0, 50, 1000}

\* C20: a target is not completed when it is created: every step that adds a
\* target to the collection (getCurrentMonthTarget without a target of the
\* month, the target form) adds it with currentPnL 0, currentTrades 0,
\* currentWinRate 0, isCompleted false and no completedAt, and at such a step
\* createMonthlyTarget would add the data of the form so, with any target values.
TheoremC20 ==
  [][ Len(targetsDb') > Len(targetsDb) =>
        /\ \A j \in 1..Len(targetsDb') :
             (\A k \in 1..Len(targetsDb) : targetsDb[k].id # targetsDb'[j].id)
               => StartsOpen(targetsDb'[j])
        /\ \A p \in TargetValues, t \in TargetValues, w \in TargetValues :
             StartsOpen(createMonthlyTarget(targetsDb, Len(targetsDb) + 1,
                          TargetData(ThisYear, ThisMonth, p, t, w), 1)[1]) ]_vars

\* getCurrentMonthTarget has just created the target of the month
WitnessC20 ==
  \E i \in 1..Len(targetCalls) :
    /\ targetCalls[i].pc = "gmtGetById"
    /\ \E j \in 1..Len(targetsDb) :
         /\ targetsDb[j].id = targetCalls[i].id
         /\ targetsDb[j].pnlTarget = 1000
         /\ StartsOpen(targetsDb[j])

\* C27: in every state reached by target creation, form edits and
\* updateMonthlyTargetProgress calls in any order, overlapping calls included,
\* a target stored with isCompleted = true has a completedAt.
TheoremC27 ==
  \A j \in 1..Len(targetsDb) : targetsDb[j].isCompleted => targetsDb[j].completedAt # 0

\* a target is stored as completed after a form write landed or two
\* recomputations overlapped
WitnessC27 ==
  /\ interfered
  /\ \E j \in 1..Len(targetsDb) : targetsDb[j].isCompleted /\ targetsDb[j].completedAt # 0

\* --------------------------------------------------------- trades section
\* the trades the journal can hold: trade k is dated on the first day of its
\* own month, from November of the year before onwards
SectionTrade(k) ==
  [ id |-> k, date |-> FirstDayOf(k - 2),
    symbol |-> IF k % 3 = 0 THEN "EURUSD" ELSE "XAUUSD",
    plAmount |-> IF k % 2 = 0 THEN -50 ELSE 100, fees |-> 0,
    netPL |-> IF k % 2 = 0 THEN -50 ELSE 100 ]

\* a.symbol.localeCompare(b.symbol) as the comparison of two ranks
SymbolRank(symbol) == IF symbol = "EURUSD" THEN 1 ELSE 2

\* the sort key of a trade for a column; the comparator is negated for 'desc'
SortKey(t, column, order) ==
  LET key == CASE column = "date" -> t.date
               [] column = "symbol" -> SymbolRank(t.symbol)
               [] column = "netPL" -> t.netPL
  IN IF order = "asc" THEN key ELSE - key

\* sortedTrades (useMemo)
sortedTrades(list, column, order) ==
  OrderBy(list, [i \in 1..Len(list) |-> SortKey(list[i], column, order)])

\* Math.ceil(sortedTrades.length / itemsPerPage)
totalPages(list, perPage) == (Len(list) + perPage - 1) \div perPage

\* sortedTrades.slice(startIndex, startIndex + itemsPerPage)
paginatedTrades(list, column, order, page, perPage) ==
  LET startIndex == (page - 1) * perPage
      last == IF startIndex + perPage < Len(list) THEN startIndex + perPage ELSE Len(list)
  IN SubSeq(sortedTrades(list, column, order), startIndex + 1, last)

\* new Date(trade.date).toISOString().slice(0, 7): the year and month of the date
MonthKeyOf(date) == <<YearOfDay(date), MonthOfDay(date)>>

RECURSIVE MonthlySums(_)
\* trades.reduce(...) into monthlyData: the months in the order in which they
\* first occur in the list, each with its sum
MonthlySums(list) ==
  IF list = <<>> THEN <<>>
  ELSE LET acc == MonthlySums(SubSeq(list, 1, Len(list) - 1))
           trade == list[Len(list)]
           month == MonthKeyOf(trade.date)
       IN IF \E i \in 1..Len(acc) : acc[i].month = month
          THEN [i \in 1..Len(acc) |->
                  IF acc[i].month = month
                  THEN [acc[i] EXCEPT !.pnl = acc[i].pnl + trade.netPL] ELSE acc[i]]
          ELSE Append(acc, [month |-> month, pnl |-> trade.netPL])

\* .slice(-6)
MonthsShown == 6
LastEntries(entries) ==
  SubSeq(entries, IF Len(entries) > MonthsShown THEN Len(entries) - MonthsShown + 1 ELSE 1,
         Len(entries))

\* tradingStats.monthlyData: the rows of the Monthly P&L card
monthlyData(list) == LastEntries(MonthlySums(list))

\* the options of the items per page select
ItemsPerPageOptions == {5, 10, 25, 50}

SectionInit ==
  /\ sectionTrades = <<>>
  /\ currentPage = 1
  /\ itemsPerPage = 10
  /\ sortBy = "date"
  /\ sortOrder = "desc"

\* the journal stores a trade and reloads: the trades prop ordered by date descending
SectionTradeAdded ==
  /\ \E k \in 1..MaxSectionTrades :
       /\ \A i \in 1..Len(sectionTrades) : sectionTrades[i].id # k
       /\ sectionTrades' = InsertDateDesc(sectionTrades, SectionTrade(k))
  /\ UNCHANGED <<currentPage, itemsPerPage, sortBy, sortOrder>>
  /\ UNCHANGED otherThanSection

\* onDelete: the journal deletes a trade and reloads
SectionTradeDeleted ==
  /\ \E i \in 1..Len(sectionTrades) : sectionTrades' = RemoveAt(sectionTrades, i)
  /\ UNCHANGED <<currentPage, itemsPerPage, sortBy, sortOrder>>
  /\ UNCHANGED otherThanSection

\* a page button (rendered with more than one page)
PageClick ==
  /\ Len(sectionTrades) > 0
  /\ totalPages(sectionTrades, itemsPerPage) > 1
  /\ \E page \in 1..totalPages(sectionTrades, itemsPerPage) : currentPage' = page
  /\ UNCHANGED <<sectionTrades, itemsPerPage, sortBy, sortOrder>>
  /\ UNCHANGED otherThanSection

\* the previous button, disabled on page 1
PreviousClick ==
  /\ Len(sectionTrades) > 0
  /\ totalPages(sectionTrades, itemsPerPage) > 1
  /\ currentPage # 1
  /\ currentPage' = IF currentPage - 1 > 1 THEN currentPage - 1 ELSE 1
  /\ UNCHANGED <<sectionTrades, itemsPerPage, sortBy, sortOrder>>
  /\ UNCHANGED otherThanSection

\* the next button, disabled on the last page
NextClick ==
  /\ Len(sectionTrades) > 0
  /\ totalPages(sectionTrades, itemsPerPage) > 1
  /\ currentPage # totalPages(sectionTrades, itemsPerPage)
  /\ currentPage' = IF currentPage + 1 < totalPages(sectionTrades, itemsPerPage)
                    THEN currentPage + 1 ELSE totalPages(sectionTrades, itemsPerPage)
  /\ UNCHANGED <<sectionTrades, itemsPerPage, sortBy, sortOrder>>
  /\ UNCHANGED otherThanSection

\* onChange of the items per page select
SetItemsPerPage ==
  /\ \E n \in ItemsPerPageOptions : itemsPerPage' = n
  /\ currentPage' = 1
  /\ UNCHANGED <<sectionTrades, sortBy, sortOrder>>
  /\ UNCHANGED otherThanSection

\* handleSort(column): a click on a column header of the table
handleSort ==
  /\ Len(sectionTrades) > 0
  /\ \E column \in {"date", "symbol", "netPL"} :
       IF sortBy = column
       THEN /\ sortOrder' = (IF sortOrder = "asc" THEN "desc" ELSE "asc")
            /\ sortBy' = sortBy
       ELSE /\ sortBy' = column
            /\ sortOrder' = "desc"
  /\ UNCHANGED <<sectionTrades, currentPage, itemsPerPage>>
  /\ UNCHANGED otherThanSection

\* the trades tab is left and opened again: the component state starts anew
SectionRemount ==
  /\ currentPage' = 1
  /\ itemsPerPage' = 10
  /\ sortBy' = "date"
  /\ sortOrder' = "desc"
  /\ UNCHANGED sectionTrades
  /\ UNCHANGED otherThanSection

SectionNext ==
  \/ SectionTradeAdded
  \/ SectionTradeDeleted
  \/ PageClick
  \/ PreviousClick
  \/ NextClick
  \/ SetItemsPerPage
  \/ handleSort
  \/ SectionRemount

\* --------------------------------------------------- trades section: claims
\* the place of a year-month in time
MonthOrdinal(month) == month[1] * MonthsPerYear + month[2]

\* the latest month in which the list has a trade
LatestMonth(list) ==
  CHOOSE o \in {MonthOrdinal(MonthKeyOf(list[i].date)) : i \in 1..Len(list)} :
    \A i \in 1..Len(list) : MonthOrdinal(MonthKeyOf(list[i].date)) <= o

\* the netPL sum of the trades of the list dated in the month of ordinal o
SumOfMonth(list, o) ==
  SumSeq(NetPLs(SelectSeq(list, LAMBDA t : MonthOrdinal(MonthKeyOf(t.date)) = o)))

\* C24: the Monthly P&L card shows the six most recent year-months, those up
\* to the latest month with a trade, each once and with the netPL sum of the
\* trades dated in it, a month without trades with 0; the trade list is the
\* one the journal delivers, ordered by date descending.
ClaimC24 ==
  Len(sectionTrades) > 0 =>
    LET shown == monthlyData(sectionTrades)
        latest == LatestMonth(sectionTrades)
    IN /\ {MonthOrdinal(shown[i].month) : i \in 1..Len(shown)} = (latest - 5)..latest
       /\ \A i, j \in 1..Len(shown) : shown[i].month = shown[j].month => i = j
       /\ \A i \in 1..Len(shown) :
            shown[i].pnl = SumOfMonth(sectionTrades, MonthOrdinal(shown[i].month))

\* C29: 1 <= currentPage <= max(1, totalPages) in every state, so the page
\* shown holds a trade whenever the list is not empty.
ClaimC29 ==
  LET pages == totalPages(sectionTrades, itemsPerPage)
  IN /\ 1 <= currentPage
     /\ currentPage <= (IF pages > 1 THEN pages ELSE 1)
     /\ Len(sectionTrades) > 0 =>
          Len(paginatedTrades(sectionTrades, sortBy, sortOrder, currentPage, itemsPerPage)) > 0

\* ---------------------------------------------------- repository failures
\* what a call hands to its caller: the error thrown, "none" when it returns;
\* the requests sent to the store; the console.error lines written
StoreRequest(fails) ==
  [ error |-> IF fails THEN "FirebaseError" ELSE "none", requests |-> 1, logged |-> 0 ]

\* try { ... } catch (error) { console.error(...); throw new Error(message) }
CatchAndThrow(outcome, message) ==
  IF outcome.error = "none" THEN outcome
  ELSE [outcome EXCEPT !.error = message, !.logged = @ + 1]

\* try { ... } catch (error) { console.error(...) }
CatchAndLog(outcome) ==
  IF outcome.error = "none" THEN outcome
  ELSE [outcome EXCEPT !.error = "none", !.logged = @ + 1]

\* await first; await second: the second runs when the first has returned
InSequence(first, second) ==
  IF first.error # "none" THEN first
  ELSE [ error |-> second.error, requests |-> first.requests + second.requests,
         logged |-> first.logged + second.logged ]

\* the service functions of the trades
createTradeOutcome(fails) == CatchAndThrow(StoreRequest(fails), "Failed to create trade")
getUserTradesOutcome(fails) == CatchAndThrow(StoreRequest(fails), "Failed to get user trades")
updateTradeOutcome(fails) == CatchAndThrow(StoreRequest(fails), "Failed to update trade")
deleteTradeOutcome(fails) == CatchAndThrow(StoreRequest(fails), "Failed to delete trade")
getPortfolioSummaryOutcome(fails) ==
  CatchAndThrow(getUserTradesOutcome(fails), "Failed to get portfolio summary")

\* the service functions of the targets
getMonthlyTargetOutcome(fails) ==
  CatchAndThrow(StoreRequest(fails), "Failed to get monthly target")
updateMonthlyTargetOutcome(fails) ==
  CatchAndThrow(StoreRequest(fails), "Failed to update monthly target")
\* updateMonthlyTargetProgress: returns after the read when there is no target
updateMonthlyTargetProgressOutcome(readFails, found, writeFails) ==
  CatchAndThrow(IF readFails \/ ~found THEN getMonthlyTargetOutcome(readFails)
                ELSE InSequence(getMonthlyTargetOutcome(FALSE),
                                updateMonthlyTargetOutcome(writeFails)),
                "Failed to update monthly target progress")

\* loadTrades and loadPortfolioSummary of the journal
loadTradesOutcome(fails) == CatchAndLog(getUserTradesOutcome(fails))
loadPortfolioSummaryOutcome(fails) == CatchAndLog(getPortfolioSummaryOutcome(fails))

\* the record of a call: the operation, whether a request of it failed, and
\* what its caller got
RepoCall(op, failed, outcome) == [op |-> op, failed |-> failed, outcome |-> outcome]

RepoInit == repoLog = <<>>

createTradeCall ==
  /\ Len(repoLog) < MaxRepoCalls
  /\ \E fails \in BOOLEAN :
       repoLog' = Append(repoLog, RepoCall("createTrade", fails, createTradeOutcome(fails)))
  /\ UNCHANGED otherThanRepo

getUserTradesCall ==
  /\ Len(repoLog) < MaxRepoCalls
  /\ \E fails \in BOOLEAN :
       repoLog' = Append(repoLog, RepoCall("getUserTrades", fails, getUserTradesOutcome(fails)))
  /\ UNCHANGED otherThanRepo

updateTradeCall ==
  /\ Len(repoLog) < MaxRepoCalls
  /\ \E fails \in BOOLEAN :
       repoLog' = Append(repoLog, RepoCall("updateTrade", fails, updateTradeOutcome(fails)))
  /\ UNCHANGED otherThanRepo

deleteTradeCall ==
  /\ Len(repoLog) < MaxRepoCalls
  /\ \E fails \in BOOLEAN :
       repoLog' = Append(repoLog, RepoCall("deleteTrade", fails, deleteTradeOutcome(fails)))
  /\ UNCHANGED otherThanRepo

getPortfolioSummaryCall ==
  /\ Len(repoLog) < MaxRepoCalls
  /\ \E fails \in BOOLEAN :
       repoLog' = Append(repoLog, RepoCall("getPortfolioSummary", fails,
                                           getPortfolioSummaryOutcome(fails)))
  /\ UNCHANGED otherThanRepo

updateMonthlyTargetProgressCall ==
  /\ Len(repoLog) < MaxRepoCalls
  /\ \E readFails \in BOOLEAN, found \in BOOLEAN, writeFails \in BOOLEAN :
       repoLog' = Append(repoLog,
                         RepoCall("updateMonthlyTargetProgress",
                                  readFails \/ (found /\ writeFails),
                                  updateMonthlyTargetProgressOutcome(readFails, found, writeFails)))
  /\ UNCHANGED otherThanRepo

loadTradesCall ==
  /\ Len(repoLog) < MaxRepoCalls
  /\ \E fails \in BOOLEAN :
       repoLog' = Append(repoLog, RepoCall("loadTrades", fails, loadTradesOutcome(fails)))
  /\ UNCHANGED otherThanRepo

loadPortfolioSummaryCall ==
  /\ Len(repoLog) < MaxRepoCalls
  /\ \E fails \in BOOLEAN :
       repoLog' = Append(repoLog, RepoCall("loadPortfolioSummary", fails,
                                           loadPortfolioSummaryOutcome(fails)))
  /\ UNCHANGED otherThanRepo

RepoNext ==
  \/ createTradeCall
  \/ getUserTradesCall
  \/ updateTradeCall
  \/ deleteTradeCall
  \/ getPortfolioSummaryCall
  \/ updateMonthlyTargetProgressCall
  \/ loadTradesCall
  \/ loadPortfolioSummaryCall

\* -------------------------------------------- repository failures: claims
\* the requests an operation sends when none is repeated
RequestsOf(op) == IF op = "updateMonthlyTargetProgress" THEN 2 ELSE 1

\* C26: a call in which a load or a save failed has thrown an error to its
\* caller, and no request was repeated; for the six service functions and for
\* loadTrades and loadPortfolioSummary of the journal.
ClaimC26 ==
  \A i \in 1..Len(repoLog) :
    /\ repoLog[i].failed => repoLog[i].outcome.error # "none"
    /\ repoLog[i].outcome.requests <= RequestsOf(repoLog[i].op)

\* ---------------------------------------- TradingJournal: trades kept locally
\* the profitLoss values of the trades entered
TjProfitLosses == {100, -50}

\* JSON.stringify(trades): the text, as the list of the fields of each trade
TjStringify(list) ==
  [text |-> [i \in 1..Len(list) |-> <<"id", list[i].id, "profitLoss", list[i].profitLoss>>]]

\* JSON.parse(savedTrades)
TjParse(saved) ==
  [i \in 1..Len(saved.text) |-> [id |-> saved.text[i][2], profitLoss |-> saved.text[i][4]]]

\* the list a loadUserData set
TjListSet(list) == [list |-> list]

\* tradesSnapshot.docs.map(doc => ({ id: doc.id, ...doc.data() })) of the query
\* ordered by createdAt descending
TjUserTrades(docs) ==
  [i \in 1..Len(docs) |->
     LET doc == docs[Len(docs) + 1 - i]
     IN [id |-> <<"doc", doc.docId>>, profitLoss |-> doc.profitLoss]]

TjInit ==
  /\ tjLocal = NoResult
  /\ tjRemote = <<>>
  /\ tjTrades = <<>>
  /\ tjEditing = NoResult
  /\ tjPage = "closed"
  /\ tjClock = 0
  /\ tjLeft = <<>>
  /\ tjLoaded = NoResult

\* the page is opened by the signed-in user: loadUserData up to its await,
\* the trades of localStorage are shown
LoadUserDataLocal ==
  /\ tjPage = "closed"
  /\ tjTrades' = IF tjLocal # NoResult THEN TjParse(tjLocal) ELSE <<>>
  /\ tjPage' = "loading"
  /\ UNCHANGED <<tjLocal, tjRemote, tjEditing, tjClock, tjLeft, tjLoaded>>
  /\ UNCHANGED otherThanTj

\* loadUserData after getDocs: the store answered or the request failed
LoadUserDataRemote ==
  /\ tjPage = "loading"
  /\ \E reachable \in BOOLEAN :
       LET userTrades == TjUserTrades(tjRemote)
       IN IF reachable /\ Len(userTrades) > 0
          THEN /\ tjTrades' = userTrades
               /\ tjLocal' = TjStringify(userTrades)
               /\ tjLoaded' = TjListSet(userTrades)
          ELSE /\ UNCHANGED <<tjTrades, tjLocal>>
               /\ tjLoaded' = IF reachable THEN TjListSet(tjTrades) ELSE NoResult
  /\ tjPage' = "open"
  /\ UNCHANGED <<tjRemote, tjEditing, tjClock, tjLeft>>
  /\ UNCHANGED otherThanTj

\* saveTrade(trade), called by handleSubmit: the trade is put in front of the
\* list and written to localStorage, then added to the store if it answers
saveTrade ==
  /\ tjPage = "open"
  /\ tjClock < MaxTjSaves
  /\ \E profitLoss \in TjProfitLosses, stored \in BOOLEAN :
       LET newTrade == [id |-> <<"local", tjClock + 1>>, profitLoss |-> profitLoss]
           updatedTrades == <<newTrade>> \o tjTrades
       IN /\ tjTrades' = updatedTrades
          /\ tjLocal' = TjStringify(updatedTrades)
          /\ tjRemote' = IF stored
                         THEN Append(tjRemote, [docId |-> Len(tjRemote) + 1,
                                                profitLoss |-> profitLoss])
                         ELSE tjRemote
  /\ tjClock' = tjClock + 1
  /\ UNCHANGED <<tjEditing, tjPage, tjLeft, tjLoaded>>
  /\ UNCHANGED otherThanTj

\* handleDeleteTrade(tradeId), confirmed
handleDeleteTrade ==
  /\ tjPage = "open"
  /\ \E i \in 1..Len(tjTrades) :
       LET updatedTrades == SelectSeq(tjTrades, LAMBDA t : t.id # tjTrades[i].id)
       IN /\ tjTrades' = updatedTrades
          /\ tjLocal' = TjStringify(updatedTrades)
  /\ UNCHANGED <<tjRemote, tjEditing, tjPage, tjClock, tjLeft, tjLoaded>>
  /\ UNCHANGED otherThanTj

\* handleEditTrade(trade)
handleEditTrade ==
  /\ tjPage = "open"
  /\ \E i \in 1..Len(tjTrades) : tjEditing' = tjTrades[i]
  /\ UNCHANGED <<tjLocal, tjRemote, tjTrades, tjPage, tjClock, tjLeft, tjLoaded>>
  /\ UNCHANGED otherThanTj

\* handleUpdateTrade: the trade being edited gets the values of the form
handleUpdateTrade ==
  /\ tjPage = "open"
  /\ tjEditing # NoResult
  /\ \E profitLoss \in TjProfitLosses :
       LET updatedTrade == [tjEditing EXCEPT !.profitLoss = profitLoss]
           updatedTrades == [i \in 1..Len(tjTrades) |->
                               IF tjTrades[i].id = tjEditing.id THEN updatedTrade
                               ELSE tjTrades[i]]
       IN /\ tjTrades' = updatedTrades
          /\ tjLocal' = TjStringify(updatedTrades)
  /\ tjEditing' = NoResult
  /\ UNCHANGED <<tjRemote, tjPage, tjClock, tjLeft, tjLoaded>>
  /\ UNCHANGED otherThanTj

\* the user leaves: the page is closed and the component state is gone
TjPageClosed ==
  /\ tjPage = "open"
  /\ tjLeft' = [i \in 1..Len(tjTrades) |-> tjTrades[i].profitLoss]
  /\ tjTrades' = <<>>
  /\ tjEditing' = NoResult
  /\ tjLoaded' = NoResult
  /\ tjPage' = "closed"
  /\ UNCHANGED <<tjLocal, tjRemote, tjClock>>
  /\ UNCHANGED otherThanTj

TjNext ==
  \/ LoadUserDataLocal
  \/ LoadUserDataRemote
  \/ saveTrade
  \/ handleDeleteTrade
  \/ handleEditTrade
  \/ handleUpdateTrade
  \/ TjPageClosed

\* --------------------------------------------------- TradingJournal: claims
\* C28: the trade list set by a loadUserData that reached the store holds the
\* trades as the user last left them, in the same order with the same values:
\* a deleted trade is not back, an updated trade has its new values. Stated
\* for the visits in which every trade saved was also added to the store.
ClaimC28 ==
  (tjLoaded # NoResult /\ Len(tjRemote) = tjClock) =>
    [i \in 1..Len(tjLoaded.list) |-> tjLoaded.list[i].profitLoss] = tjLeft

\* ---------------------------------------------------------- specifications
\* the targets tab opened by a new user without trades, in a UTC time zone
TargetsQuiet == ~eastOfUTC /\ targetsDb = <<>> /\ targetTrades = <<>>
\* the journal before any trade was stored
JournalQuiet == tradesDb = {}
HistQuiet == ~westOfUTC /\ histTrades = <<>>

\* the pure statistics functions applied to every bounded trade list
InitStats == StatsInit /\ CalcInit /\ JournalInit /\ TargetsInit /\ TargetsQuiet
               /\ HistInit /\ HistQuiet /\ SectionInit /\ RepoInit /\ TjInit
SpecStats == InitStats /\ [][StatsNext]_vars

\* the position size calculator under every sequence of inputs and clicks
InitCalc == CalcInit /\ StatsInit /\ JournalInit /\ TargetsInit /\ TargetsQuiet
               /\ HistInit /\ HistQuiet /\ SectionInit /\ RepoInit /\ TjInit
SpecCalc == InitCalc /\ [][CalcNext]_vars

\* the journal component with its loads, writes and alerts, and the clock
InitJournal == JournalInit /\ StatsInit /\ CalcInit /\ TargetsInit /\ TargetsQuiet
               /\ HistInit /\ HistQuiet /\ SectionInit /\ RepoInit /\ TjInit
SpecJournal == InitJournal /\ [][JournalNext]_vars

\* the targets component with its loads, recomputations and form writes
InitTargets == TargetsInit /\ StatsInit /\ CalcInit /\ JournalInit /\ JournalQuiet
               /\ HistInit /\ HistQuiet /\ SectionInit /\ RepoInit /\ TjInit
SpecTargets == InitTargets /\ [][TargetsNext]_vars

\* the analytics functions applied to every bounded trade list, in a zone
\* at or west of UTC
InitHist == HistInit /\ StatsInit /\ CalcInit /\ JournalInit /\ JournalQuiet
              /\ TargetsInit /\ TargetsQuiet /\ SectionInit /\ RepoInit /\ TjInit
SpecHist == InitHist /\ [][HistNext]_vars

\* the trades section under every sequence of clicks and list changes
InitSection == SectionInit /\ StatsInit /\ CalcInit /\ JournalInit /\ JournalQuiet
                 /\ TargetsInit /\ TargetsQuiet /\ HistInit /\ HistQuiet /\ RepoInit /\ TjInit
SpecSection == InitSection /\ [][SectionNext]_vars

\* the calls of the services and of the journal's loads, the store failing or not
InitRepo == RepoInit /\ StatsInit /\ CalcInit /\ JournalInit /\ JournalQuiet
              /\ TargetsInit /\ TargetsQuiet /\ HistInit /\ HistQuiet /\ SectionInit /\ TjInit
SpecRepo == InitRepo /\ [][RepoNext]_vars

\* the TradingJournal component over visits of one user, the store answering or not
InitTj == TjInit /\ StatsInit /\ CalcInit /\ JournalInit /\ JournalQuiet
            /\ TargetsInit /\ TargetsQuiet /\ HistInit /\ HistQuiet /\ SectionInit /\ RepoInit
SpecTj == InitTj /\ [][TjNext]_vars

=============================================================================
